---- MODULE Spec2Model ----
(***************************************************************************)
(* A model of the compositing coordinator of verso-green:                  *)
(*   - the scroll event coalescer        (src/src/scroll_coalescing.rs)    *)
(*   - the per-pipeline resource ledger  (src/src/resource_tracker.rs)     *)
(*   - the frame pacer                   (src/src/frame_pacing.rs)         *)
(*   - the memory pressure monitor       (src/src/memory_pressure.rs)      *)
(*   - the pipeline registry and the paint-metric state machine            *)
(*     with the composition request and the shutdown state                 *)
(*     (types in src/src/compositor.rs; the message handlers are not part  *)
(*     of the sources at hand and follow spec.md, section 4.1)             *)
(***************************************************************************)
EXTENDS Integers, Sequences, FiniteSets, TLC

VARIABLES
    \* ---- ScrollCoalescer (scroll_coalescing.rs:96-103)
    pending,        \* Vec<CoalescedScrollEvent>
    config,         \* ScrollCoalescerConfig
    stats,          \* CoalescingStats
    now,            \* the monotonic clock read by Instant::now(), in ms
    \* ---- history of the coalescer's inputs and outputs
    added,          \* the deltas of the raw events passed to add_event, in order
    prev_cursor,    \* the cursor of the raw event added last (NoCursor: none yet)
    returned,       \* every batch returned by flush / flush_all so far, in order
    \* ---- IOCompositor (compositor.rs:103-190)
    pipeline_details,   \* HashMap<PipelineId, PipelineDetails>
    \* ---- what the compositor has sent to its collaborators
    metric_events,      \* paint-metric events sent to the constellation,
                        \* counted per pipeline and metric
    renderer_txns,      \* cleanup transactions sent to the renderer and not
                        \* yet taken by it, oldest first
    \* ---- FramePacing (frame_pacing.rs:13-32); Duration and Instant in ns
    target_frame_duration,
    refresh_rate_hz,    \* an f64, see F64 below
    last_frame_time,
    last_render_start,  \* Option<Instant>: <<>> is None, <<t>> is Some(t)
    avg_frame_time,
    avg_render_time,
    frame_count,
    dropped_frames,
    pacing_config,      \* FramePacing::config
    instant,            \* the monotonic clock read by the pacer, in ns
    \* ---- history of the pacer
    frame_log,          \* per on_frame_presented call: the frame's duration and
                        \* the drop limit at that call
    panicked,           \* a call into the pacer has panicked
    \* ---- MemoryPressureMonitor (memory_pressure.rs:53-57); Instant in ms
    mem_config,         \* MemoryPressureMonitor::config
    last_check,
    current_level,
    mem_now,            \* the monotonic clock read by the monitor, in ms
    \* ---- history of the monitor
    samples,            \* the utilization read by each memory sample, in order
    check_returned,     \* what the last call of check() returned
    check_sampled,      \* whether the last call of check() took a sample
    \* ---- IOCompositor, the message loop (compositor.rs:103-190)
    composition_request,    \* CompositionRequest
    shutdown_state,         \* ShutdownState
    \* ---- what the message loop has sent out or thrown away
    frame_commands,     \* the reasons of the generate-and-present-frame
                        \* commands handed to the renderer, in order
    dropped_messages,   \* calls dropped because of the shutdown state
    requested,          \* the reasons a composite has been asked for since
                        \* the last composite or the shutdown, in order
    \* ---- one PipelineResources on its own (resource_tracker.rs:10-17)
    ledger,
    ledger_returned,    \* what the last call on the ledger returned: <<>> is
                        \* (), <<d>> is the value d
    ledger_call,        \* the last call on the ledger, and the ledger before it
    \* ---- history of the display lists
    last_display_list,  \* the pipeline and epoch of the display list that the
                        \* registry was told of last
    \* ---- WebGLContextId (webgl_support.rs:106-111)
    NEXT_ID,            \* static NEXT_ID: AtomicU64
    \* ---- the threads that call WebGLContextId::new, and its history
    id_calls,           \* per thread: where its call stands, the ids created
                        \* before the call began, the value it fetched
    id_log,             \* per completed call, in order of completion: the id
                        \* returned and the ids created before it began
    \* ---- WebGLContextManager (webgl_support.rs:179-188)
    contexts,           \* HashMap<WebGLContextId, WebGLContextState>
    pipeline_contexts,  \* HashMap<PipelineId, Vec<WebGLContextId>>
    gl_call,            \* the last call on the manager, what it returned and
                        \* the manager before it
    \* ---- the media backend (media_backend.rs:38-39)
    INIT,               \* static INIT: Once
    INIT_RESULT,        \* static mut INIT_RESULT: <<>> is None, <<r>> Some(r)
    \* ---- the threads that call init_media_backend, and its history
    backend_inits,      \* the backends initialised with ServoMedia::init
    media_calls,        \* per thread: where its call stands and what it asked
    media_log,          \* per completed call, in order of completion: the
                        \* thread, what it asked for, what it got back
    \* ---- history of the coalescer's batches
    batch_log,          \* per pending batch: the cursor of its first event
                        \* and the arrival numbers of its events
    returned_log,       \* the same for every batch returned so far
    \* ---- history of the pacer's statistics
    presented_calls,    \* calls of on_frame_presented since construction or
                        \* the last reset_stats
    \* ---- one ShaderCompilationProgress (shader_precache.rs:120-133)
    progress

scroll_vars == <<pending, config, stats, now, added, prev_cursor, returned>>

comp_vars == <<pipeline_details, metric_events, renderer_txns>>

pace_vars == <<target_frame_duration, refresh_rate_hz, last_frame_time,
               last_render_start, avg_frame_time, avg_render_time, frame_count,
               dropped_frames, pacing_config, instant, frame_log, panicked>>

mem_vars == <<mem_config, last_check, current_level, mem_now, samples,
              check_returned, check_sampled>>

loop_vars == <<composition_request, shutdown_state, frame_commands,
               dropped_messages, requested>>

ledger_vars == <<ledger, ledger_returned, ledger_call>>

epoch_vars == <<last_display_list>>

gl_vars == <<NEXT_ID, id_calls, id_log, contexts, pipeline_contexts, gl_call>>

media_vars == <<INIT, INIT_RESULT, backend_inits, media_calls, media_log>>

order_vars == <<batch_log, returned_log>>

stat_vars == <<presented_calls>>

shader_vars == <<progress>>

\* the components above the message loop's, and the ones below it
early_vars == <<scroll_vars, comp_vars, pace_vars, mem_vars, loop_vars,
                ledger_vars, epoch_vars>>

late_vars == <<gl_vars, media_vars, order_vars, stat_vars, shader_vars>>

vars == <<pending, config, stats, now, added, prev_cursor, returned,
          pipeline_details, metric_events, renderer_txns,
          target_frame_duration, refresh_rate_hz, last_frame_time,
          last_render_start, avg_frame_time, avg_render_time, frame_count,
          dropped_frames, pacing_config, instant, frame_log, panicked,
          mem_config, last_check, current_level, mem_now, samples,
          check_returned, check_sampled,
          composition_request, shutdown_state, frame_commands, dropped_messages,
          requested,
          ledger, ledger_returned, ledger_call, last_display_list,
          NEXT_ID, id_calls, id_log, contexts, pipeline_contexts, gl_call,
          INIT, INIT_RESULT, backend_inits, media_calls, media_log,
          batch_log, returned_log, presented_calls, progress>>

(***************************************************************************)
(* Bounds of the model and constants of the program                        *)
(***************************************************************************)
MAX_COALESCED_EVENTS == 10

MAX_COALESCE_TIME_MS == 16

\* raw events per run of the general coalescer specification
MaxAdds == 3

\* raw events per run of the burst specifications
MaxBurst == 12

\* the clock stops here
MaxTime == 17

\* the clock advances by one of these (ms): the largest age at which a batch
\* still accepts an event, and the smallest at which it no longer does
TimeSteps == {MAX_COALESCE_TIME_MS, MAX_COALESCE_TIME_MS + 1}

NoCursor == <<>>

\* A is the base position; B is exactly 10 px from A (distance^2 = 100);
\* C is within 10 px of B (distance^2 = 45) but 11 px from A (distance^2 = 121).
CursorA == <<100, 100>>

CursorB == <<106, 108>>

CursorC == <<100, 111>>

Cursors == {CursorA, CursorB, CursorC}

Deltas == {<<0, -5>>, <<3, 1>>}

DefaultConfig ==
    [max_coalesced_events |-> MAX_COALESCED_EVENTS,
     max_coalesce_time_ms |-> MAX_COALESCE_TIME_MS,
     cursor_threshold_px  |-> 10,
     enabled              |-> TRUE]

Configs == {DefaultConfig, [DefaultConfig EXCEPT !.enabled = FALSE]}

\* a configuration with limits of its own (ScrollCoalescer::with_config):
\* two events per batch, 8 ms of hold time, 5 px of cursor distance
CustomConfig ==
    [max_coalesced_events |-> 2,
     max_coalesce_time_ms |-> 8,
     cursor_threshold_px  |-> 5,
     enabled              |-> TRUE]

(***************************************************************************)
(* Helpers                                                                 *)
(***************************************************************************)
Min(S) == CHOOSE x \in S : \A y \in S : x <= y

VecAdd(a, b) == <<a[1] + b[1], a[2] + b[2]>>

RECURSIVE SumDeltas(_)
SumDeltas(s) == IF s = <<>> THEN <<0, 0>> ELSE VecAdd(Head(s), SumDeltas(Tail(s)))

RECURSIVE SumCounts(_)
SumCounts(s) == IF s = <<>> THEN 0 ELSE Head(s).event_count + SumCounts(Tail(s))

BatchDeltas(s) == [i \in 1..Len(s) |-> s[i].delta]

Range(s) == {s[i] : i \in 1..Len(s)}

(***************************************************************************)
(* CoalescedScrollEvent                                                    *)
(***************************************************************************)
\* CoalescedScrollEvent::new; t is the value of Instant::now()
new_event(delta, cursor, t) ==
    [delta            |-> delta,
     cursor           |-> cursor,
     event_count      |-> 1,
     first_event_time |-> t,
     last_event_time  |-> t]

\* (self.cursor.x - cursor.x).pow(2) + (self.cursor.y - cursor.y).pow(2)
cursor_distance(a, b) ==
    (a[1] - b[1]) * (a[1] - b[1]) + (a[2] - b[2]) * (a[2] - b[2])

\* first_event_time.elapsed().as_millis(), the clock being in whole ms
elapsed(self, t) == t - self.first_event_time

try_coalesce_no_count_limit(self, delta, cursor, t) ==
    IF cursor_distance(self.cursor, cursor) > 100 THEN [ok |-> FALSE, self |-> self]
    ELSE IF elapsed(self, t) > MAX_COALESCE_TIME_MS THEN [ok |-> FALSE, self |-> self]
    ELSE [ok   |-> TRUE,
          self |-> [self EXCEPT !.delta = VecAdd(@, delta),
                                !.cursor = cursor,
                                !.event_count = @ + 1,
                                !.last_event_time = t]]

try_coalesce_drops_delta(self, delta, cursor, t) ==
    IF cursor_distance(self.cursor, cursor) > 100 THEN [ok |-> FALSE, self |-> self]
    ELSE IF self.event_count >= MAX_COALESCED_EVENTS THEN [ok |-> FALSE, self |-> self]
    ELSE IF elapsed(self, t) > MAX_COALESCE_TIME_MS THEN [ok |-> FALSE, self |-> self]
    ELSE [ok   |-> TRUE,
          self |-> [self EXCEPT !.delta = <<@[1] + delta[1], delta[2]>>,
                                !.cursor = cursor,
                                !.event_count = @ + 1,
                                !.last_event_time = t]]

try_coalesce_ignores_cursor(self, delta, cursor, t) ==
    IF self.event_count >= MAX_COALESCED_EVENTS THEN [ok |-> FALSE, self |-> self]
    ELSE IF elapsed(self, t) > MAX_COALESCE_TIME_MS THEN [ok |-> FALSE, self |-> self]
    ELSE [ok   |-> TRUE,
          self |-> [self EXCEPT !.delta = VecAdd(@, delta),
                                !.cursor = cursor,
                                !.event_count = @ + 1,
                                !.last_event_time = t]]

\* CoalescedScrollEvent::try_coalesce: ok is the returned bool, self the
\* event after the call
try_coalesce(self, delta, cursor, t) ==
    IF cursor_distance(self.cursor, cursor) > 100 THEN [ok |-> FALSE, self |-> self]
    ELSE IF self.event_count >= MAX_COALESCED_EVENTS THEN [ok |-> FALSE, self |-> self]
    ELSE IF elapsed(self, t) > MAX_COALESCE_TIME_MS THEN [ok |-> FALSE, self |-> self]
    ELSE [ok   |-> TRUE,
          self |-> [self EXCEPT !.delta = VecAdd(@, delta),
                                !.cursor = cursor,
                                !.event_count = @ + 1,
                                !.last_event_time = t]]

should_flush_count_only(self, t) ==
    self.event_count >= MAX_COALESCED_EVENTS

\* CoalescedScrollEvent::should_flush
should_flush(self, t) ==
    \/ self.event_count >= MAX_COALESCED_EVENTS
    \/ elapsed(self, t) > MAX_COALESCE_TIME_MS

(***************************************************************************)
(* ScrollCoalescer                                                         *)
(***************************************************************************)
\* the pending batches that accept the event, i.e. on which try_coalesce
\* returns true
Accepting(delta, cursor) ==
    {i \in 1..Len(pending) : try_coalesce(pending[i], delta, cursor, now).ok}

add_event_merges_last(delta, cursor) ==
    /\ added' = Append(added, delta)
    /\ prev_cursor' = cursor
    /\ IF ~config.enabled
       THEN /\ pending' = Append(pending, new_event(delta, cursor, now))
            /\ stats' = [stats EXCEPT !.total_events = @ + 1]
       ELSE IF Accepting(delta, cursor) # {}
       THEN LET i == CHOOSE x \in Accepting(delta, cursor) :
                         \A y \in Accepting(delta, cursor) : y <= x
            IN /\ pending' = [pending EXCEPT
                                 ![i] = try_coalesce(@, delta, cursor, now).self]
               /\ stats' = [stats EXCEPT !.total_events = @ + 1,
                                         !.events_saved = @ + 1]
       ELSE /\ pending' = Append(pending, new_event(delta, cursor, now))
            /\ stats' = [stats EXCEPT !.total_events = @ + 1]
    /\ UNCHANGED <<config, now, returned>>

\* ScrollCoalescer::add_event: the loop stops at the first pending batch on
\* which try_coalesce returns true; try_coalesce changes nothing when it
\* returns false
add_event(delta, cursor) ==
    /\ added' = Append(added, delta)
    /\ prev_cursor' = cursor
    /\ IF ~config.enabled
       THEN /\ pending' = Append(pending, new_event(delta, cursor, now))
            /\ stats' = [stats EXCEPT !.total_events = @ + 1]
       ELSE IF Accepting(delta, cursor) # {}
       THEN LET i == Min(Accepting(delta, cursor))
            IN /\ pending' = [pending EXCEPT
                                 ![i] = try_coalesce(@, delta, cursor, now).self]
               /\ stats' = [stats EXCEPT !.total_events = @ + 1,
                                         !.events_saved = @ + 1]
       ELSE /\ pending' = Append(pending, new_event(delta, cursor, now))
            /\ stats' = [stats EXCEPT !.total_events = @ + 1]
    /\ UNCHANGED <<config, now, returned>>

\* drain(..).partition(|e| e.should_flush()): both halves keep the order
ReadyOf(s, t) == SelectSeq(s, LAMBDA e : should_flush(e, t))

KeptOf(s, t) == SelectSeq(s, LAMBDA e : ~should_flush(e, t))

flush_keeps_ready ==
    /\ pending' = pending
    /\ stats' = [stats EXCEPT !.coalesced_events = @ + Len(ReadyOf(pending, now))]
    /\ returned' = returned \o ReadyOf(pending, now)
    /\ UNCHANGED <<config, now, added, prev_cursor>>

\* ScrollCoalescer::flush
flush ==
    /\ pending' = KeptOf(pending, now)
    /\ stats' = [stats EXCEPT !.coalesced_events = @ + Len(ReadyOf(pending, now))]
    /\ returned' = returned \o ReadyOf(pending, now)
    /\ UNCHANGED <<config, now, added, prev_cursor>>

Reverse(s) == [i \in 1..Len(s) |-> s[Len(s) + 1 - i]]

flush_all_reversed ==
    /\ stats' = [stats EXCEPT !.coalesced_events = @ + Len(pending)]
    /\ returned' = returned \o Reverse(pending)
    /\ pending' = <<>>
    /\ UNCHANGED <<config, now, added, prev_cursor>>

flush_all_uncounted ==
    /\ stats' = stats
    /\ returned' = returned \o pending
    /\ pending' = <<>>
    /\ UNCHANGED <<config, now, added, prev_cursor>>

\* ScrollCoalescer::flush_all
flush_all ==
    /\ stats' = [stats EXCEPT !.coalesced_events = @ + Len(pending)]
    /\ returned' = returned \o pending
    /\ pending' = <<>>
    /\ UNCHANGED <<config, now, added, prev_cursor>>

\* ScrollCoalescer::config_mut, used to switch coalescing on or off
config_mut(c) ==
    /\ config' = c
    /\ UNCHANGED <<pending, stats, now, added, prev_cursor, returned>>

\* time passes between two calls
Advance(dt) ==
    /\ now + dt <= MaxTime
    /\ now' = now + dt
    /\ UNCHANGED <<pending, config, stats, added, prev_cursor, returned>>

(***************************************************************************)
(* PipelineResources (resource_tracker.rs)                                 *)
(***************************************************************************)
\* PipelineResources::new / Default
PipelineResources_new ==
    [image_keys |-> <<>>, font_keys |-> <<>>, font_instance_keys |-> <<>>]

track_image(r, key) == [r EXCEPT !.image_keys = Append(@, key)]

track_font(r, key) == [r EXCEPT !.font_keys = Append(@, key)]

track_font_instance(r, key) == [r EXCEPT !.font_instance_keys = Append(@, key)]

\* the list without the first occurrence of key
RECURSIVE WithoutFirst(_, _)
WithoutFirst(s, key) ==
    IF s = <<>> THEN <<>>
    ELSE IF Head(s) = key THEN Tail(s)
    ELSE <<Head(s)>> \o WithoutFirst(Tail(s), key)

untrack_image_first_only(r, key) ==
    [r EXCEPT !.image_keys = WithoutFirst(@, key)]

\* Vec::retain(|k| *k != key)
untrack_image(r, key) ==
    [r EXCEPT !.image_keys = SelectSeq(@, LAMBDA k : k # key)]

untrack_font(r, key) ==
    [r EXCEPT !.font_keys = SelectSeq(@, LAMBDA k : k # key)]

untrack_font_instance(r, key) ==
    [r EXCEPT !.font_instance_keys = SelectSeq(@, LAMBDA k : k # key)]

is_empty_images_only(r) == r.image_keys = <<>>

is_empty(r) ==
    r.image_keys = <<>> /\ r.font_keys = <<>> /\ r.font_instance_keys = <<>>

resource_count(r) ==
    Len(r.image_keys) + Len(r.font_keys) + Len(r.font_instance_keys)

\* no value: nothing has been returned yet, or the call has no key
NoValue == "none"

clear_images_only(r) == [r EXCEPT !.image_keys = <<>>]

clear(r) ==
    [r EXCEPT !.image_keys = <<>>, !.font_keys = <<>>, !.font_instance_keys = <<>>]

\* the calls on one PipelineResources held by a caller through &mut; all
\* of them return ()
ledger_track(kind, key) ==
    /\ ledger' =
         (CASE kind = "image" -> track_image(ledger, key)
            [] kind = "font" -> track_font(ledger, key)
            [] kind = "font_instance" -> track_font_instance(ledger, key))
    /\ ledger_returned' = <<>>
    /\ ledger_call' = [op |-> "track", key |-> key, before |-> ledger]

ledger_untrack(kind, key) ==
    /\ ledger' =
         (CASE kind = "image" -> untrack_image(ledger, key)
            [] kind = "font" -> untrack_font(ledger, key)
            [] kind = "font_instance" -> untrack_font_instance(ledger, key))
    /\ ledger_returned' = <<>>
    /\ ledger_call' = [op |-> "untrack", key |-> key, before |-> ledger]

ledger_clear ==
    /\ ledger' = clear(ledger)
    /\ ledger_returned' = <<>>
    /\ ledger_call' = [op |-> "clear", key |-> NoValue, before |-> ledger]

(***************************************************************************)
(* PaintMetricState and PipelineDetails (compositor.rs:249-324)            *)
(***************************************************************************)
Waiting == [state |-> "Waiting"]

Seen(epoch, first_reflow) ==
    [state |-> "Seen", epoch |-> epoch, first_reflow |-> first_reflow]

Sent == [state |-> "Sent"]

\* the two paint-metric slots of PipelineDetails
MetricKinds == {"first_paint_metric", "first_contentful_paint_metric"}

\* Option::None of most_recent_display_list_epoch; epochs start at 1
NoEpoch == 0

NoParent == "none"

NoPipeline == "none"

PipelineDetails_new_metric_sent ==
    [pipeline                       |-> NoPipeline,
     parent_pipeline_id             |-> NoParent,
     most_recent_display_list_epoch |-> NoEpoch,
     scroll_tree                    |-> 0,
     first_paint_metric             |-> Sent,
     first_contentful_paint_metric  |-> Waiting,
     resources                      |-> PipelineResources_new]

\* PipelineDetails::new.  The scroll tree is kept as the scroll offset of its
\* root node; the animation flags, the throttled flag and the hit-test items
\* take no part in what is modelled here.
PipelineDetails_new ==
    [pipeline                       |-> NoPipeline,
     parent_pipeline_id             |-> NoParent,
     most_recent_display_list_epoch |-> NoEpoch,
     scroll_tree                    |-> 0,
     first_paint_metric             |-> Waiting,
     first_contentful_paint_metric  |-> Waiting,
     resources                      |-> PipelineResources_new]

(***************************************************************************)
(* The pipeline registry and its message handlers.  compositor.rs holds    *)
(* the state they work on; the handlers themselves follow spec.md 4.1,     *)
(* 4.4, 6 and 7.                                                           *)
(***************************************************************************)
PipelineIds == {"P1", "P2"}

Handles == {"h1"}

ResourceKinds == {"image", "font", "font_instance"}

\* one key per kind: keys are globally unique
KeysOf(kind) ==
    CASE kind = "image" -> {"i1"}
      [] kind = "font" -> {"f1"}
      [] kind = "font_instance" -> {"g1"}

\* display-list epochs
MaxEpoch == 2

Epochs == 1..MaxEpoch

\* the epochs a frame-presented notification carries, per pipeline
EpochMapsOver(ids, epochs) == UNION {[D -> epochs] : D \in SUBSET ids}

\* events per pipeline and metric sent to the constellation in one run
MaxMetricEvents == 2

\* resources in one pipeline's ledger
MaxTracked == 2

\* cleanup transactions not yet taken by the renderer
MaxInFlight == 1

\* the scrollable range of a pipeline's root scroll node
MaxScroll == 1

Registered == DOMAIN pipeline_details

\* HashMap::insert
MapInsert(m, k, v) == [x \in DOMAIN m \cup {k} |-> IF x = k THEN v ELSE m[x]]

\* HashMap::remove
MapRemove(m, k) == [x \in DOMAIN m \ {k} |-> m[x]]

\* the number of resources tracked for a pipeline
TrackedFor(details, p) ==
    IF p \in DOMAIN details THEN resource_count(details[p].resources) ELSE 0

attach_pipeline_remembers_sent(p, parent, handle) ==
    LET fresh ==
          [PipelineDetails_new EXCEPT
              !.first_paint_metric =
                  IF metric_events[p]["first_paint_metric"] > 0 THEN Sent ELSE Waiting,
              !.first_contentful_paint_metric =
                  IF metric_events[p]["first_contentful_paint_metric"] > 0
                  THEN Sent ELSE Waiting]
    IN /\ pipeline_details' =
            MapInsert(pipeline_details, p,
                      [(IF p \in Registered THEN pipeline_details[p] ELSE fresh)
                          EXCEPT !.pipeline = handle, !.parent_pipeline_id = parent])
       /\ UNCHANGED <<metric_events, renderer_txns>>

\* attach_pipeline(pipeline_id, parent_id?, pipeline_handle): creates the
\* entry if there is none, and sets its connection and parent
attach_pipeline(p, parent, handle) ==
    /\ pipeline_details' =
         MapInsert(pipeline_details, p,
                   [(IF p \in Registered THEN pipeline_details[p]
                                         ELSE PipelineDetails_new)
                       EXCEPT !.pipeline = handle, !.parent_pipeline_id = parent])
    /\ UNCHANGED <<metric_events, renderer_txns>>

\* the descriptor of one resource-deletion transaction: the drained ledger
cleanup_transaction(r) ==
    [image_keys         |-> r.image_keys,
     font_keys          |-> r.font_keys,
     font_instance_keys |-> r.font_instance_keys]

\* retire_pipeline(pipeline_id): an unknown pipeline is ignored; otherwise
\* the ledger is drained into a cleanup transaction, the entry is removed
\* and no other entry keeps it as its parent
retire_pipeline(p) ==
    IF p \notin Registered
    THEN UNCHANGED comp_vars
    ELSE LET r == pipeline_details[p].resources
             rest == MapRemove(pipeline_details, p)
         IN /\ renderer_txns' =
                 IF is_empty(r) THEN renderer_txns
                 ELSE Append(renderer_txns, cleanup_transaction(r))
            /\ pipeline_details' =
                 [q \in DOMAIN rest |->
                     IF rest[q].parent_pipeline_id = p
                     THEN [rest[q] EXCEPT !.parent_pipeline_id = NoParent]
                     ELSE rest[q]]
            /\ UNCHANGED metric_events

\* the most recent display-list epoch advances: it moves to a later epoch and
\* stays for an earlier one
advanced(current, epoch) == IF epoch > current THEN epoch ELSE current

\* one paint-metric slot when a display list is received
slot_on_display_list(slot, epoch, first_reflow) ==
    IF slot = Waiting THEN Seen(epoch, first_reflow) ELSE slot

note_display_list_received_creates(p, epoch, first_reflow) ==
    LET d == IF p \in Registered THEN pipeline_details[p] ELSE PipelineDetails_new
    IN /\ pipeline_details' =
            MapInsert(pipeline_details, p,
                      [d EXCEPT !.most_recent_display_list_epoch =
                                    advanced(@, epoch),
                                !.first_paint_metric =
                                    slot_on_display_list(@, epoch, first_reflow),
                                !.first_contentful_paint_metric =
                                    slot_on_display_list(@, epoch, first_reflow)])
       /\ UNCHANGED <<metric_events, renderer_txns>>

note_display_list_received_assigns(p, epoch, first_reflow) ==
    IF p \notin Registered
    THEN UNCHANGED comp_vars
    ELSE /\ pipeline_details' =
              [pipeline_details EXCEPT
                  ![p] = [@ EXCEPT !.most_recent_display_list_epoch = epoch,
                                   !.first_paint_metric =
                                       slot_on_display_list(@, epoch, first_reflow),
                                   !.first_contentful_paint_metric =
                                       slot_on_display_list(@, epoch, first_reflow)]]
         /\ UNCHANGED <<metric_events, renderer_txns>>

\* note_display_list_received(pipeline_id, epoch, is_first_reflow): an
\* unknown pipeline is ignored; otherwise the most recent epoch advances to
\* the epoch of the display list, and every slot that is Waiting becomes
\* Seen(epoch, is_first_reflow)
note_display_list_received(p, epoch, first_reflow) ==
    IF p \notin Registered
    THEN UNCHANGED comp_vars
    ELSE /\ pipeline_details' =
              [pipeline_details EXCEPT
                  ![p] = [@ EXCEPT !.most_recent_display_list_epoch =
                                       advanced(@, epoch),
                                   !.first_paint_metric =
                                       slot_on_display_list(@, epoch, first_reflow),
                                   !.first_contentful_paint_metric =
                                       slot_on_display_list(@, epoch, first_reflow)]]
         /\ UNCHANGED <<metric_events, renderer_txns>>

slot_on_frame_presented_ignores_epoch(slot, presented_epoch) ==
    IF slot.state = "Seen"
    THEN [slot |-> Sent, send |-> TRUE]
    ELSE [slot |-> slot, send |-> FALSE]

slot_on_frame_presented_resends(slot, presented_epoch) ==
    IF slot.state = "Seen" /\ slot.epoch <= presented_epoch
    THEN [slot |-> Sent, send |-> TRUE]
    ELSE [slot |-> slot, send |-> slot = Sent]

\* one paint-metric slot when a frame of the given epoch has been presented:
\* the slot afterwards, and whether the metric event is sent
slot_on_frame_presented(slot, presented_epoch) ==
    IF slot.state = "Seen" /\ slot.epoch <= presented_epoch
    THEN [slot |-> Sent, send |-> TRUE]
    ELSE [slot |-> slot, send |-> FALSE]

\* note_frame_presented(epoch_by_pipeline): every slot of a named, known
\* pipeline that is Seen(e, _) with e <= the presented epoch becomes Sent,
\* and one event per such slot goes to the constellation
note_frame_presented(epochs) ==
    LET named == DOMAIN epochs \cap Registered
        after(p, k) == slot_on_frame_presented(pipeline_details[p][k], epochs[p])
    IN /\ pipeline_details' =
            [p \in Registered |->
                IF p \in named
                THEN [pipeline_details[p] EXCEPT
                         !.first_paint_metric =
                             after(p, "first_paint_metric").slot,
                         !.first_contentful_paint_metric =
                             after(p, "first_contentful_paint_metric").slot]
                ELSE pipeline_details[p]]
       /\ metric_events' =
            [p \in PipelineIds |-> [k \in MetricKinds |->
                IF p \in named /\ after(p, k).send
                THEN metric_events[p][k] + 1
                ELSE metric_events[p][k]]]
       /\ UNCHANGED renderer_txns

\* a resource-allocation notification (pipeline_id, resource_kind, key): the
\* key is tracked in the pipeline's ledger; an unknown pipeline is ignored
track(r, kind, key) ==
    CASE kind = "image" -> track_image(r, key)
      [] kind = "font" -> track_font(r, key)
      [] kind = "font_instance" -> track_font_instance(r, key)

untrack(r, kind, key) ==
    CASE kind = "image" -> untrack_image(r, key)
      [] kind = "font" -> untrack_font(r, key)
      [] kind = "font_instance" -> untrack_font_instance(r, key)

resource_allocated(p, kind, key) ==
    IF p \notin Registered
    THEN UNCHANGED comp_vars
    ELSE /\ pipeline_details' =
              [pipeline_details EXCEPT ![p].resources = track(@, kind, key)]
         /\ UNCHANGED <<metric_events, renderer_txns>>

\* the explicit deletion of one resource
resource_deleted(p, kind, key) ==
    IF p \notin Registered
    THEN UNCHANGED comp_vars
    ELSE /\ pipeline_details' =
              [pipeline_details EXCEPT ![p].resources = untrack(@, kind, key)]
         /\ UNCHANGED <<metric_events, renderer_txns>>

\* a scroll of a pipeline's root node by delta, kept within its scrollable
\* range; an unknown pipeline is ignored
scroll_pipeline(p, delta) ==
    IF p \notin Registered
    THEN UNCHANGED comp_vars
    ELSE LET to == pipeline_details[p].scroll_tree + delta
         IN /\ pipeline_details' =
                 [pipeline_details EXCEPT
                     ![p].scroll_tree =
                         IF to < 0 THEN 0 ELSE IF to > MaxScroll THEN MaxScroll ELSE to]
            /\ UNCHANGED <<metric_events, renderer_txns>>

\* the renderer takes the oldest cleanup transaction
renderer_takes ==
    /\ renderer_txns # <<>>
    /\ renderer_txns' = Tail(renderer_txns)
    /\ UNCHANGED <<pipeline_details, metric_events>>

(***************************************************************************)
(* FramePacing (frame_pacing.rs)                                           *)
(*                                                                         *)
(* A Duration is a number of nanoseconds.  An f64 refresh rate is one of   *)
(*   [class |-> "hz",   n |-> k]   k Hz, k any integer                     *)
(*   [class |-> "tiny", n |-> k]   k * 10^-20 Hz, 1 <= k <= 5: positive,   *)
(*                                 with a period above Duration::MAX       *)
(*   [class |-> "nan",  n |-> 0]   NaN                                     *)
(* The other f64 values of the program (drop_threshold, smoothing_factor)  *)
(* are ratios [num, den] of small naturals.                                *)
(***************************************************************************)
Hz(k) == [class |-> "hz", n |-> k]

TinyHz == [class |-> "tiny", n |-> 1]

NaN == [class |-> "nan", n |-> 0]

DEFAULT_REFRESH_RATE_HZ == Hz(60)

\* the arguments given to set_refresh_rate
Rates == {Hz(-10), Hz(0), Hz(360), Hz(361), TinyHz, NaN}

\* hz > 0.0 (false for NaN)
gt_zero(hz) == hz.class # "nan" /\ hz.n > 0

\* hz <= 360.0 (false for NaN)
le_360(hz) == \/ hz.class = "tiny"
              \/ hz.class = "hz" /\ hz.n <= 360

NanosPerSec == 1000000000

\* the integer nearest to num / den, ties to even, as Duration::from_secs_f64
\* and Duration::mul_f64 round to whole nanoseconds
RoundHalfEven(num, den) ==
    LET q == num \div den
        r == num % den
    IN IF 2 * r > den \/ (2 * r = den /\ q % 2 = 1) THEN q + 1 ELSE q

\* Duration::from_secs_f64(1.0 / hz) for hz > 0: ok is FALSE when the call
\* panics because 1.0 / hz is above Duration::MAX, else d is the Duration
from_secs_f64_recip(hz) ==
    IF hz.class = "hz"
    THEN [ok |-> TRUE, d |-> RoundHalfEven(NanosPerSec, hz.n)]
    ELSE [ok |-> FALSE, d |-> 0]

\* Duration::mul_f64
mul_f64(d, r) == RoundHalfEven(d * r.num, r.den)

\* Duration::saturating_sub
saturating_sub(a, b) == IF a > b THEN a - b ELSE 0

\* impl Default for FramePacingConfig
DefaultPacingConfig ==
    [vsync_enabled    |-> TRUE,
     adaptive_vsync   |-> TRUE,
     smoothing_factor |-> [num |-> 1, den |-> 10],
     drop_threshold   |-> [num |-> 3, den |-> 2],
     debug_logging    |-> FALSE]

\* the configurations written through config_mut
PacingConfigs ==
    {DefaultPacingConfig,
     [DefaultPacingConfig EXCEPT !.vsync_enabled = FALSE],
     [DefaultPacingConfig EXCEPT !.adaptive_vsync = FALSE],
     [DefaultPacingConfig EXCEPT !.drop_threshold = [num |-> 1, den |-> 2]]}

set_refresh_rate_clears_drops(hz) ==
    /\ IF gt_zero(hz) /\ le_360(hz)
       THEN /\ refresh_rate_hz' = hz
            /\ dropped_frames' = 0
            /\ IF from_secs_f64_recip(hz).ok
               THEN /\ target_frame_duration' = from_secs_f64_recip(hz).d
                    /\ panicked' = panicked
               ELSE /\ target_frame_duration' = target_frame_duration
                    /\ panicked' = TRUE
       ELSE UNCHANGED <<refresh_rate_hz, target_frame_duration, panicked,
                        dropped_frames>>
    /\ UNCHANGED <<last_frame_time, last_render_start, avg_frame_time,
                   avg_render_time, frame_count, pacing_config, instant, frame_log>>

\* FramePacing::set_refresh_rate: refresh_rate_hz is assigned before
\* Duration::from_secs_f64 is called, which panics on a period it cannot hold
set_refresh_rate(hz) ==
    /\ IF gt_zero(hz) /\ le_360(hz)
       THEN /\ refresh_rate_hz' = hz
            /\ IF from_secs_f64_recip(hz).ok
               THEN /\ target_frame_duration' = from_secs_f64_recip(hz).d
                    /\ panicked' = panicked
               ELSE /\ target_frame_duration' = target_frame_duration
                    /\ panicked' = TRUE
       ELSE UNCHANGED <<refresh_rate_hz, target_frame_duration, panicked>>
    /\ UNCHANGED <<last_frame_time, last_render_start, avg_frame_time,
                   avg_render_time, frame_count, dropped_frames, pacing_config,
                   instant, frame_log>>

\* self.last_frame_time.elapsed()
frame_elapsed == instant - last_frame_time

should_generate_frame_waits_for_target ==
    IF ~pacing_config.vsync_enabled THEN TRUE
    ELSE frame_elapsed >= target_frame_duration

\* FramePacing::should_generate_frame
should_generate_frame ==
    IF ~pacing_config.vsync_enabled THEN TRUE
    ELSE IF /\ pacing_config.adaptive_vsync
            /\ frame_elapsed >= mul_f64(target_frame_duration,
                                        pacing_config.drop_threshold)
    THEN TRUE
    ELSE frame_elapsed >= target_frame_duration

\* FramePacing::time_until_next_frame
time_until_next_frame ==
    IF ~pacing_config.vsync_enabled THEN 0
    ELSE saturating_sub(target_frame_duration, frame_elapsed)

\* FramePacing::begin_frame
begin_frame ==
    /\ last_render_start' = <<instant>>
    /\ UNCHANGED <<target_frame_duration, refresh_rate_hz, last_frame_time,
                   avg_frame_time, avg_render_time, frame_count, dropped_frames,
                   pacing_config, instant, frame_log, panicked>>

\* FramePacing::smooth_duration
smooth_duration(current, new) ==
    LET alpha == pacing_config.smoothing_factor
    IN RoundHalfEven(current * (alpha.den - alpha.num) + new * alpha.num, alpha.den)

on_frame_presented_counts_at_limit ==
    LET frame_time == instant - last_frame_time
        drop_threshold == mul_f64(target_frame_duration, pacing_config.drop_threshold)
    IN /\ IF last_render_start # <<>>
          THEN avg_render_time' =
                   smooth_duration(avg_render_time, instant - last_render_start[1])
          ELSE avg_render_time' = avg_render_time
       /\ last_render_start' = <<>>
       /\ dropped_frames' = IF frame_time >= drop_threshold
                            THEN dropped_frames + 1 ELSE dropped_frames
       /\ avg_frame_time' = smooth_duration(avg_frame_time, frame_time)
       /\ last_frame_time' = instant
       /\ frame_count' = frame_count + 1
       /\ frame_log' = Append(frame_log, [frame_time |-> frame_time,
                                          target     |-> target_frame_duration,
                                          limit      |-> drop_threshold])
       /\ UNCHANGED <<target_frame_duration, refresh_rate_hz, pacing_config,
                      instant, panicked>>

\* FramePacing::on_frame_presented; instant is the value of Instant::now()
on_frame_presented ==
    LET frame_time == instant - last_frame_time
        drop_threshold == mul_f64(target_frame_duration, pacing_config.drop_threshold)
    IN /\ IF last_render_start # <<>>
          THEN avg_render_time' =
                   smooth_duration(avg_render_time, instant - last_render_start[1])
          ELSE avg_render_time' = avg_render_time
       /\ last_render_start' = <<>>
       /\ dropped_frames' = IF frame_time > drop_threshold
                            THEN dropped_frames + 1 ELSE dropped_frames
       /\ avg_frame_time' = smooth_duration(avg_frame_time, frame_time)
       /\ last_frame_time' = instant
       /\ frame_count' = frame_count + 1
       /\ frame_log' = Append(frame_log, [frame_time |-> frame_time,
                                          target     |-> target_frame_duration,
                                          limit      |-> drop_threshold])
       /\ UNCHANGED <<target_frame_duration, refresh_rate_hz, pacing_config,
                      instant, panicked>>

\* FramePacing::config_mut, used to replace the configuration
pacing_config_mut(c) ==
    /\ pacing_config' = c
    /\ UNCHANGED <<target_frame_duration, refresh_rate_hz, last_frame_time,
                   last_render_start, avg_frame_time, avg_render_time,
                   frame_count, dropped_frames, instant, frame_log, panicked>>

reset_stats_keeps_drops ==
    /\ frame_count' = 0
    /\ dropped_frames' = dropped_frames
    /\ avg_frame_time' = target_frame_duration
    /\ avg_render_time' = 0
    /\ UNCHANGED <<target_frame_duration, refresh_rate_hz, last_frame_time,
                   last_render_start, pacing_config, instant, frame_log, panicked>>

\* FramePacing::reset_stats
reset_stats ==
    /\ frame_count' = 0
    /\ dropped_frames' = 0
    /\ avg_frame_time' = target_frame_duration
    /\ avg_render_time' = 0
    /\ UNCHANGED <<target_frame_duration, refresh_rate_hz, last_frame_time,
                   last_render_start, pacing_config, instant, frame_log, panicked>>

\* FramePacing::stats, the two counters of FrameStats
pacing_stats == [total_frames |-> frame_count, dropped_frames |-> dropped_frames]

\* FramePacing::drop_percentage: the quotient dropped_frames / frame_count
\* times 100 as the ratio num / den, and 0 when no frame has been counted
drop_percentage ==
    IF frame_count = 0
    THEN [num |-> 0, den |-> 1]
    ELSE [num |-> dropped_frames * 100, den |-> frame_count]

\* time passes until the last presented frame is e ns old
wait_until_elapsed(e) ==
    /\ e > frame_elapsed
    /\ instant' = last_frame_time + e
    /\ UNCHANGED <<target_frame_duration, refresh_rate_hz, last_frame_time,
                   last_render_start, avg_frame_time, avg_render_time,
                   frame_count, dropped_frames, pacing_config, frame_log, panicked>>

(***************************************************************************)
(* CompositionRequest and ShutdownState (compositor.rs:217-243), and the   *)
(* calls of the message loop that work on them, which follow spec.md 3,    *)
(* 4.1, 5 and 7                                                            *)
(***************************************************************************)
CompositingReasons == {"Headless", "Animation", "NewWebRenderFrame", "Resize"}

NoCompositingNecessary == [request |-> "NoCompositingNecessary"]

CompositeNow(reason) == [request |-> "CompositeNow", reason |-> reason]

NotShuttingDown == "NotShuttingDown"

ShuttingDown == "ShuttingDown"

FinishedShuttingDown == "FinishedShuttingDown"

\* the order of the shutdown states
ShutdownRank(st) ==
    CASE st = NotShuttingDown -> 0
      [] st = ShuttingDown -> 1
      [] st = FinishedShuttingDown -> 2

\* the calls dropped after the shutdown that a behaviour counts
MaxDropped == 2

\* the frame commands a behaviour hands to the renderer
MaxCommands == 1

\* the requests for one composite
MaxRequests == 2

\* the raw scroll events the message loop is given
MaxLoopAdds == 1

\* a mutating call that arrives after begin_shutdown is not accepted; after
\* FinishedShuttingDown it is dropped and counted
drop_call ==
    /\ shutdown_state = FinishedShuttingDown => dropped_messages < MaxDropped
    /\ dropped_messages' =
         IF shutdown_state = FinishedShuttingDown
         THEN dropped_messages + 1 ELSE dropped_messages
    /\ UNCHANGED <<composition_request, shutdown_state, frame_commands, requested>>

Deliver_during_shutdown(handler) == handler /\ UNCHANGED loop_vars

\* a message for the pipeline registry as the message loop treats it
Deliver(handler) ==
    IF shutdown_state = NotShuttingDown
    THEN handler /\ UNCHANGED loop_vars
    ELSE drop_call /\ UNCHANGED comp_vars

\* scroll input as the message loop treats it: it goes to the coalescer
deliver_scroll(delta, cursor) ==
    IF shutdown_state = NotShuttingDown
    THEN add_event(delta, cursor) /\ UNCHANGED loop_vars
    ELSE drop_call /\ UNCHANGED scroll_vars

request_composite_keeps_first(reason) ==
    IF shutdown_state # NotShuttingDown
    THEN drop_call
    ELSE /\ composition_request' =
              IF composition_request = NoCompositingNecessary
              THEN CompositeNow(reason) ELSE composition_request
         /\ requested' = Append(requested, reason)
         /\ UNCHANGED <<shutdown_state, frame_commands, dropped_messages>>

\* request_composite(reason): the request becomes CompositeNow(reason)
request_composite(reason) ==
    IF shutdown_state # NotShuttingDown
    THEN drop_call
    ELSE /\ composition_request' = CompositeNow(reason)
         /\ requested' = Append(requested, reason)
         /\ UNCHANGED <<shutdown_state, frame_commands, dropped_messages>>

begin_shutdown_restarts ==
    /\ shutdown_state' = ShuttingDown
    /\ composition_request' = NoCompositingNecessary
    /\ requested' = <<>>
    /\ UNCHANGED <<frame_commands, dropped_messages>>

\* begin_shutdown(): a running compositor starts to shut down and abandons
\* the composite it was asked for
begin_shutdown ==
    IF shutdown_state # NotShuttingDown
    THEN UNCHANGED loop_vars
    ELSE /\ shutdown_state' = ShuttingDown
         /\ composition_request' = NoCompositingNecessary
         /\ requested' = <<>>
         /\ UNCHANGED <<frame_commands, dropped_messages>>

\* finish_shutdown(): the compositor has shut down
finish_shutdown ==
    /\ shutdown_state' = FinishedShuttingDown
    /\ UNCHANGED <<composition_request, frame_commands, dropped_messages,
                   requested>>

\* the scroll offset of a pipeline's root node after a scroll by dy
scrolled(offset, dy) ==
    LET to == offset + dy
    IN IF to < 0 THEN 0 ELSE IF to > MaxScroll THEN MaxScroll ELSE to

tick_ignores_pacer(target, reason) ==
    IF shutdown_state # NotShuttingDown
    THEN UNCHANGED <<scroll_vars, comp_vars, loop_vars>>
    ELSE LET drained == pending
             request == IF drained = <<>> THEN composition_request
                        ELSE CompositeNow(reason)
             asked == IF drained = <<>> THEN requested
                      ELSE Append(requested, reason)
             fire == request # NoCompositingNecessary
         IN /\ flush_all
            /\ pipeline_details' =
                 IF drained # <<>> /\ target \in Registered
                 THEN [pipeline_details EXCEPT
                          ![target].scroll_tree =
                              scrolled(@, SumDeltas(BatchDeltas(drained))[2])]
                 ELSE pipeline_details
            /\ frame_commands' =
                 IF fire THEN Append(frame_commands, request.reason)
                 ELSE frame_commands
            /\ composition_request' =
                 IF fire THEN NoCompositingNecessary ELSE request
            /\ requested' = IF fire THEN <<>> ELSE asked
            /\ UNCHANGED <<metric_events, renderer_txns, shutdown_state,
                           dropped_messages>>

\* tick(): after FinishedShuttingDown (and while shutting down, when no
\* input is accepted and no composite is wanted) nothing happens.
\* Otherwise the pending scroll input is drained and applied to the scroll
\* tree of the pipeline it hits (target, found by the hit test), which asks
\* for a composite (for reason); then the frame pacer is asked, and if it
\* approves, a wanted composite is handed to the renderer and the request
\* is cleared.
tick(target, reason) ==
    IF shutdown_state # NotShuttingDown
    THEN UNCHANGED <<scroll_vars, comp_vars, loop_vars>>
    ELSE LET drained == pending
             request == IF drained = <<>> THEN composition_request
                        ELSE CompositeNow(reason)
             asked == IF drained = <<>> THEN requested
                      ELSE Append(requested, reason)
             fire == request # NoCompositingNecessary /\ should_generate_frame
         IN /\ flush_all
            /\ pipeline_details' =
                 IF drained # <<>> /\ target \in Registered
                 THEN [pipeline_details EXCEPT
                          ![target].scroll_tree =
                              scrolled(@, SumDeltas(BatchDeltas(drained))[2])]
                 ELSE pipeline_details
            /\ frame_commands' =
                 IF fire THEN Append(frame_commands, request.reason)
                 ELSE frame_commands
            /\ composition_request' =
                 IF fire THEN NoCompositingNecessary ELSE request
            /\ requested' = IF fire THEN <<>> ELSE asked
            /\ UNCHANGED <<metric_events, renderer_txns, shutdown_state,
                           dropped_messages>>

(***************************************************************************)
(* MemoryPressureMonitor (memory_pressure.rs).  A utilization is a         *)
(* percentage and is kept as a whole number of percent, which is all the   *)
(* comparisons with the thresholds need; a cache factor is a ratio.        *)
(***************************************************************************)
Normal == "Normal"

Warning == "Warning"

Critical == "Critical"

MemoryPressureLevels == {Normal, Warning, Critical}

\* the factor 1.0
One == [num |-> 1, den |-> 1]

\* impl Default for MemoryPressureConfig
DefaultMemoryPressureConfig ==
    [warning_threshold     |-> 70,
     critical_threshold    |-> 90,
     check_interval        |-> 5000,
     warning_cache_factor  |-> [num |-> 1, den |-> 2],
     critical_cache_factor |-> [num |-> 1, den |-> 4]]

\* a configuration of the caller's choice, for MemoryPressureMonitor::new
CustomMemoryPressureConfig ==
    [warning_threshold     |-> 50,
     critical_threshold    |-> 70,
     check_interval        |-> 1000,
     warning_cache_factor  |-> [num |-> 3, den |-> 4],
     critical_cache_factor |-> [num |-> 1, den |-> 10]]

MemoryPressureConfigs == {DefaultMemoryPressureConfig, CustomMemoryPressureConfig}

\* what get_memory_usage_percent can read: utilizations at, just above and
\* away from the thresholds of both configurations
Usages == {0, 50, 51, 70, 71, 90, 91}

\* the number of memory samples a behaviour takes
MaxSamples == 2

should_check_always == TRUE

\* self.last_check.elapsed() >= self.config.check_interval
should_check == mem_now - last_check >= mem_config.check_interval

check_with_hysteresis(usage) ==
    IF ~should_check
    THEN /\ check_returned' = current_level
         /\ check_sampled' = FALSE
         /\ UNCHANGED <<mem_config, last_check, current_level, mem_now, samples>>
    ELSE LET level ==
                 IF usage > mem_config.critical_threshold THEN Critical
                 ELSE IF usage > mem_config.warning_threshold
                      THEN (IF current_level = Critical THEN Critical ELSE Warning)
                      ELSE Normal
         IN /\ last_check' = mem_now
            /\ samples' = Append(samples, usage)
            /\ current_level' = level
            /\ check_returned' = level
            /\ check_sampled' = TRUE
            /\ UNCHANGED <<mem_config, mem_now>>

\* MemoryPressureMonitor::check, where usage is what
\* get_memory_usage_percent reads if the check comes to sample the memory
check(usage) ==
    IF ~should_check
    THEN /\ check_returned' = current_level
         /\ check_sampled' = FALSE
         /\ UNCHANGED <<mem_config, last_check, current_level, mem_now, samples>>
    ELSE LET level ==
                 IF usage > mem_config.critical_threshold THEN Critical
                 ELSE IF usage > mem_config.warning_threshold THEN Warning
                 ELSE Normal
         IN /\ last_check' = mem_now
            /\ samples' = Append(samples, usage)
            /\ current_level' = level
            /\ check_returned' = level
            /\ check_sampled' = TRUE
            /\ UNCHANGED <<mem_config, mem_now>>

\* MemoryPressureMonitor::cache_reduction_factor
cache_reduction_factor ==
    CASE current_level = Normal -> One
      [] current_level = Warning -> mem_config.warning_cache_factor
      [] current_level = Critical -> mem_config.critical_cache_factor

\* time passes for the monitor, until e has elapsed since the last sample
mem_elapse(e) ==
    /\ last_check + e > mem_now
    /\ mem_now' = last_check + e
    /\ UNCHANGED <<mem_config, last_check, current_level, samples,
                   check_returned, check_sampled>>

(***************************************************************************)
(* WebGLContextId (webgl_support.rs:100-123)                               *)
(***************************************************************************)
\* the threads that create ids or initialise the media backend
Threads == {"T1", "T2"}

\* calls of WebGLContextId::new per run of the id specification
MaxIds == 3

\* a plain load of NEXT_ID in the place of the read-modify-write
fetch_add_loads == [value |-> NEXT_ID, next |-> NEXT_ID]

\* NEXT_ID.fetch_add(1, Ordering::Relaxed): one atomic read-modify-write
\* that returns the previous value. The counter is a u64 and wraps after
\* 2^64 calls, which no run reaches: MaxIds caps it.
fetch_add == [value |-> NEXT_ID, next |-> NEXT_ID + 1]

\* the ids whose creation has completed
Created == {id_log[i].id : i \in 1..Len(id_log)}

\* a thread enters WebGLContextId::new (or default, which calls new)
id_start(t) ==
    /\ id_calls[t].pc = "idle"
    /\ id_calls' = [id_calls EXCEPT ![t] = [pc |-> "started", before |-> Created, id |-> 0]]
    /\ UNCHANGED <<NEXT_ID, id_log>>

\* the thread executes the fetch_add
id_fetch(t) ==
    /\ id_calls[t].pc = "started"
    /\ NEXT_ID' = fetch_add.next
    /\ id_calls' = [id_calls EXCEPT ![t].pc = "fetched", ![t].id = fetch_add.value]
    /\ UNCHANGED id_log

\* WebGLContextId::new returns Self(value)
id_return(t) ==
    /\ id_calls[t].pc = "fetched"
    /\ id_log' = Append(id_log, [id |-> id_calls[t].id, before |-> id_calls[t].before])
    /\ id_calls' = [id_calls EXCEPT ![t] = [pc |-> "idle", before |-> {}, id |-> 0]]
    /\ UNCHANGED NEXT_ID

(***************************************************************************)
(* WebGLContextManager (webgl_support.rs:176-298)                          *)
(***************************************************************************)
\* contexts registered per run of the manager specification
MaxContexts == 3

\* WebGLContextState::new; width, height and version play no part in the
\* bookkeeping and are left out
WebGLContextState_new(id) == [id |-> id, is_lost |-> FALSE]

\* the manager before a call, as the call's record keeps it
ManagerNow == [contexts |-> contexts, pipeline_contexts |-> pipeline_contexts]

\* WebGLContextManager::get_context: <<>> is None, <<s>> is Some(s)
get_context(id) == IF id \in DOMAIN contexts THEN <<contexts[id]>> ELSE <<>>

\* WebGLContextManager::get_pipeline_contexts: <<>> is None, <<v>> is Some(v)
get_pipeline_contexts(pipeline_id) ==
    IF pipeline_id \in DOMAIN pipeline_contexts
    THEN <<pipeline_contexts[pipeline_id]>>
    ELSE <<>>

\* WebGLContextManager::context_count
context_count == Cardinality(DOMAIN contexts)

register_context_pushes_twice(pipeline_id) ==
    LET id == fetch_add.value
    IN /\ NEXT_ID' = fetch_add.next
       /\ contexts' = MapInsert(contexts, id, WebGLContextState_new(id))
       /\ pipeline_contexts' =
              IF pipeline_id \in DOMAIN pipeline_contexts
              THEN [pipeline_contexts EXCEPT ![pipeline_id] = Append(Append(@, id), id)]
              ELSE MapInsert(pipeline_contexts, pipeline_id, <<id, id>>)
       /\ gl_call' = [op |-> "register_context", pipeline |-> pipeline_id, id |-> id,
                      returned |-> <<id>>, before |-> ManagerNow]
       /\ UNCHANGED <<id_calls, id_log>>

\* WebGLContextManager::register_context; entry(pipeline_id).or_default()
\* creates the list of a pipeline that has none
register_context(pipeline_id) ==
    LET id == fetch_add.value
    IN /\ NEXT_ID' = fetch_add.next
       /\ contexts' = MapInsert(contexts, id, WebGLContextState_new(id))
       /\ pipeline_contexts' =
              IF pipeline_id \in DOMAIN pipeline_contexts
              THEN [pipeline_contexts EXCEPT ![pipeline_id] = Append(@, id)]
              ELSE MapInsert(pipeline_contexts, pipeline_id, <<id>>)
       /\ gl_call' = [op |-> "register_context", pipeline |-> pipeline_id, id |-> id,
                      returned |-> <<id>>, before |-> ManagerNow]
       /\ UNCHANGED <<id_calls, id_log>>

\* WebGLContextManager::remove_context: retain() runs on the list of every
\* pipeline and leaves a list in the map when it becomes empty
remove_context(id) ==
    /\ IF id \in DOMAIN contexts
       THEN /\ contexts' = MapRemove(contexts, id)
            /\ pipeline_contexts' =
                   [p \in DOMAIN pipeline_contexts |->
                       SelectSeq(pipeline_contexts[p], LAMBDA c : c # id)]
            /\ gl_call' = [op |-> "remove_context", pipeline |-> NoPipeline, id |-> id,
                           returned |-> <<contexts[id]>>, before |-> ManagerNow]
       ELSE /\ UNCHANGED <<contexts, pipeline_contexts>>
            /\ gl_call' = [op |-> "remove_context", pipeline |-> NoPipeline, id |-> id,
                           returned |-> <<>>, before |-> ManagerNow]
    /\ UNCHANGED <<NEXT_ID, id_calls, id_log>>

\* the loop of remove_pipeline_contexts: each id of the list is removed from
\* the context map, and the state is kept when there was one
RECURSIVE remove_each(_, _, _)
remove_each(ids, ctxs, removed) ==
    IF ids = <<>> THEN [contexts |-> ctxs, removed |-> removed]
    ELSE IF Head(ids) \in DOMAIN ctxs
    THEN remove_each(Tail(ids), MapRemove(ctxs, Head(ids)),
                     Append(removed, ctxs[Head(ids)]))
    ELSE remove_each(Tail(ids), ctxs, removed)

remove_pipeline_contexts_keeps_list(pipeline_id) ==
    /\ IF pipeline_id \in DOMAIN pipeline_contexts
       THEN LET r == remove_each(pipeline_contexts[pipeline_id], contexts, <<>>)
            IN /\ pipeline_contexts' = pipeline_contexts
               /\ contexts' = r.contexts
               /\ gl_call' = [op |-> "remove_pipeline_contexts",
                              pipeline |-> pipeline_id, id |-> 0,
                              returned |-> r.removed, before |-> ManagerNow]
       ELSE /\ UNCHANGED <<contexts, pipeline_contexts>>
            /\ gl_call' = [op |-> "remove_pipeline_contexts",
                           pipeline |-> pipeline_id, id |-> 0,
                           returned |-> <<>>, before |-> ManagerNow]
    /\ UNCHANGED <<NEXT_ID, id_calls, id_log>>

\* WebGLContextManager::remove_pipeline_contexts
remove_pipeline_contexts(pipeline_id) ==
    /\ IF pipeline_id \in DOMAIN pipeline_contexts
       THEN LET r == remove_each(pipeline_contexts[pipeline_id], contexts, <<>>)
            IN /\ pipeline_contexts' = MapRemove(pipeline_contexts, pipeline_id)
               /\ contexts' = r.contexts
               /\ gl_call' = [op |-> "remove_pipeline_contexts",
                              pipeline |-> pipeline_id, id |-> 0,
                              returned |-> r.removed, before |-> ManagerNow]
       ELSE /\ UNCHANGED <<contexts, pipeline_contexts>>
            /\ gl_call' = [op |-> "remove_pipeline_contexts",
                           pipeline |-> pipeline_id, id |-> 0,
                           returned |-> <<>>, before |-> ManagerNow]
    /\ UNCHANGED <<NEXT_ID, id_calls, id_log>>

(***************************************************************************)
(* The media backend (media_backend.rs:38-142)                             *)
(***************************************************************************)
\* MediaBackend
MediaBackends == {"Auto", "GStreamer", "Dummy"}

\* calls of init_media_backend per run
MaxMediaCalls == 3

\* do_init_media_backend; available tells whether try_init_gstreamer
\* returns Ok (it never does when the feature is not compiled in). result
\* is <<r>> when the function returns r and <<>> when it panics; inits are
\* the backends handed to ServoMedia::init with success.
do_init_media_backend(req, available) ==
    CASE req = "Dummy" ->
            [result |-> <<[backend |-> "Dummy",
                           message |-> "Dummy media backend initialized (no audio/video playback)"]>>,
             inits |-> <<"Dummy">>]
      [] req = "GStreamer" ->
            IF available
            THEN [result |-> <<[backend |-> "GStreamer",
                                message |-> "GStreamer media backend initialized"]>>,
                  inits |-> <<"GStreamer">>]
            ELSE [result |-> <<>>, inits |-> <<>>]
      [] req = "Auto" ->
            IF available
            THEN [result |-> <<[backend |-> "GStreamer",
                                message |-> "GStreamer media backend initialized"]>>,
                  inits |-> <<"GStreamer">>]
            ELSE [result |-> <<[backend |-> "Dummy",
                                message |-> "Dummy media backend initialized (GStreamer unavailable)"]>>,
                  inits |-> <<"Dummy">>]

\* the calls of init_media_backend begun so far
MediaCallsBegun ==
    Len(media_log) + Cardinality({t \in Threads : media_calls[t].pc # "idle"})

\* a call ends: what it returned (<<>> when it panicked) goes to the log
media_done(t, outcome) ==
    /\ media_log' = Append(media_log, [thread |-> t,
                                       requested |-> media_calls[t].requested,
                                       returned |-> outcome])
    /\ media_calls' = [media_calls EXCEPT ![t].pc = "idle"]

\* a thread calls init_media_backend(requested)
media_call(t, req) ==
    /\ media_calls[t].pc = "idle"
    /\ media_calls' = [media_calls EXCEPT ![t] = [pc |-> "call_once", requested |-> req]]
    /\ UNCHANGED <<INIT, INIT_RESULT, backend_inits, media_log>>

\* INIT.call_once: the first caller runs the closure, a caller that comes
\* while the closure runs waits, a caller that comes after it has returned
\* goes on, and a caller that comes after it has panicked panics (the Once
\* is poisoned)
media_call_once(t) ==
    /\ media_calls[t].pc = "call_once"
    /\ INIT # "Running"
    /\ CASE INIT = "Incomplete" ->
                /\ INIT' = "Running"
                /\ media_calls' = [media_calls EXCEPT ![t].pc = "closure"]
                /\ UNCHANGED media_log
         [] INIT = "Complete" ->
                /\ media_calls' = [media_calls EXCEPT ![t].pc = "read"]
                /\ UNCHANGED <<INIT, media_log>>
         [] INIT = "Poisoned" ->
                /\ media_done(t, <<>>)
                /\ UNCHANGED INIT
    /\ UNCHANGED <<INIT_RESULT, backend_inits>>

\* the closure: INIT_RESULT = Some(do_init_media_backend(requested))
media_closure(t, available) ==
    /\ media_calls[t].pc = "closure"
    /\ LET r == do_init_media_backend(media_calls[t].requested, available)
       IN IF r.result = <<>>
          THEN /\ INIT' = "Poisoned"
               /\ media_done(t, <<>>)
               /\ UNCHANGED <<INIT_RESULT, backend_inits>>
          ELSE /\ INIT' = "Complete"
               /\ INIT_RESULT' = r.result
               /\ backend_inits' = backend_inits \o r.inits
               /\ media_calls' = [media_calls EXCEPT ![t].pc = "read"]
               /\ UNCHANGED media_log

\* INIT_RESULT.clone().expect(..)
media_read(t) ==
    /\ media_calls[t].pc = "read"
    /\ media_done(t, INIT_RESULT)
    /\ UNCHANGED <<INIT, INIT_RESULT, backend_inits>>

(***************************************************************************)
(* ShaderCompilationProgress (shader_precache.rs:120-190)                  *)
(***************************************************************************)
\* the largest number of shaders to compile
MaxTotal == 4

\* calls of on_shader_compiled, and of on_shader_failed, on one tracker;
\* the counters are u32 and no run comes near their limit
MaxShaderCalls == 4

\* ShaderCompilationProgress::new
ShaderCompilationProgress_new(total) ==
    [total |-> total, compiled |-> 0, failed |-> 0, complete |-> FALSE]

\* ShaderCompilationProgress::check_complete
check_complete(self) ==
    IF self.compiled + self.failed >= self.total
    THEN [self EXCEPT !.complete = TRUE]
    ELSE self

\* ShaderCompilationProgress::has_failures
has_failures == progress.failed > 0

\* ShaderCompilationProgress::on_shader_compiled
on_shader_compiled ==
    progress' = check_complete([progress EXCEPT !.compiled = @ + 1])

\* ShaderCompilationProgress::on_shader_failed
on_shader_failed ==
    progress' = check_complete([progress EXCEPT !.failed = @ + 1])

\* ScrollCoalescer::new / with_config, IOCompositor::new and
\* FramePacing::new: nothing is pending, no pipeline is known, nothing has
\* been sent, no frame has been presented and the pacer runs at 60 Hz;
\* coalescing is enabled or disabled
Init ==
    /\ pending = <<>>
    /\ config \in Configs
    /\ stats = [total_events |-> 0, coalesced_events |-> 0, events_saved |-> 0]
    /\ now = 0
    /\ added = <<>>
    /\ prev_cursor = NoCursor
    /\ returned = <<>>
    /\ pipeline_details = <<>>
    /\ metric_events = [p \in PipelineIds |-> [k \in MetricKinds |-> 0]]
    /\ renderer_txns = <<>>
    /\ target_frame_duration = from_secs_f64_recip(DEFAULT_REFRESH_RATE_HZ).d
    /\ refresh_rate_hz = DEFAULT_REFRESH_RATE_HZ
    /\ last_frame_time = 0
    /\ last_render_start = <<>>
    /\ avg_frame_time = from_secs_f64_recip(DEFAULT_REFRESH_RATE_HZ).d
    /\ avg_render_time = 0
    /\ frame_count = 0
    /\ dropped_frames = 0
    /\ pacing_config = DefaultPacingConfig
    /\ instant = 0
    /\ frame_log = <<>>
    /\ panicked = FALSE
    /\ mem_config = DefaultMemoryPressureConfig
    /\ last_check = 0
    /\ current_level = Normal
    /\ mem_now = 0
    /\ samples = <<>>
    /\ check_returned = NoValue
    /\ check_sampled = FALSE
    /\ composition_request = NoCompositingNecessary
    /\ shutdown_state = NotShuttingDown
    /\ frame_commands = <<>>
    /\ dropped_messages = 0
    /\ requested = <<>>
    /\ ledger = PipelineResources_new
    /\ ledger_returned = <<>>
    /\ ledger_call = [op |-> "new", key |-> NoValue, before |-> PipelineResources_new]
    /\ last_display_list = [pipeline |-> NoPipeline, epoch |-> NoEpoch]
    /\ NEXT_ID = 1
    /\ id_calls = [t \in Threads |-> [pc |-> "idle", before |-> {}, id |-> 0]]
    /\ id_log = <<>>
    /\ contexts = <<>>
    /\ pipeline_contexts = <<>>
    /\ gl_call = [op |-> "new", pipeline |-> NoPipeline, id |-> 0, returned |-> <<>>,
                  before |-> [contexts |-> <<>>, pipeline_contexts |-> <<>>]]
    /\ INIT = "Incomplete"
    /\ INIT_RESULT = <<>>
    /\ backend_inits = <<>>
    /\ media_calls = [t \in Threads |-> [pc |-> "idle", requested |-> "Auto"]]
    /\ media_log = <<>>
    /\ batch_log = <<>>
    /\ returned_log = <<>>
    /\ presented_calls = 0
    /\ progress = ShaderCompilationProgress_new(MaxTotal)

\* the same with the default configuration (ScrollCoalescer::new)
InitDefault ==
    /\ pending = <<>>
    /\ config = DefaultConfig
    /\ stats = [total_events |-> 0, coalesced_events |-> 0, events_saved |-> 0]
    /\ now = 0
    /\ added = <<>>
    /\ prev_cursor = NoCursor
    /\ returned = <<>>
    /\ pipeline_details = <<>>
    /\ metric_events = [p \in PipelineIds |-> [k \in MetricKinds |-> 0]]
    /\ renderer_txns = <<>>
    /\ target_frame_duration = from_secs_f64_recip(DEFAULT_REFRESH_RATE_HZ).d
    /\ refresh_rate_hz = DEFAULT_REFRESH_RATE_HZ
    /\ last_frame_time = 0
    /\ last_render_start = <<>>
    /\ avg_frame_time = from_secs_f64_recip(DEFAULT_REFRESH_RATE_HZ).d
    /\ avg_render_time = 0
    /\ frame_count = 0
    /\ dropped_frames = 0
    /\ pacing_config = DefaultPacingConfig
    /\ instant = 0
    /\ frame_log = <<>>
    /\ panicked = FALSE
    /\ mem_config = DefaultMemoryPressureConfig
    /\ last_check = 0
    /\ current_level = Normal
    /\ mem_now = 0
    /\ samples = <<>>
    /\ check_returned = NoValue
    /\ check_sampled = FALSE
    /\ composition_request = NoCompositingNecessary
    /\ shutdown_state = NotShuttingDown
    /\ frame_commands = <<>>
    /\ dropped_messages = 0
    /\ requested = <<>>
    /\ ledger = PipelineResources_new
    /\ ledger_returned = <<>>
    /\ ledger_call = [op |-> "new", key |-> NoValue, before |-> PipelineResources_new]
    /\ last_display_list = [pipeline |-> NoPipeline, epoch |-> NoEpoch]
    /\ NEXT_ID = 1
    /\ id_calls = [t \in Threads |-> [pc |-> "idle", before |-> {}, id |-> 0]]
    /\ id_log = <<>>
    /\ contexts = <<>>
    /\ pipeline_contexts = <<>>
    /\ gl_call = [op |-> "new", pipeline |-> NoPipeline, id |-> 0, returned |-> <<>>,
                  before |-> [contexts |-> <<>>, pipeline_contexts |-> <<>>]]
    /\ INIT = "Incomplete"
    /\ INIT_RESULT = <<>>
    /\ backend_inits = <<>>
    /\ media_calls = [t \in Threads |-> [pc |-> "idle", requested |-> "Auto"]]
    /\ media_log = <<>>
    /\ batch_log = <<>>
    /\ returned_log = <<>>
    /\ presented_calls = 0
    /\ progress = ShaderCompilationProgress_new(MaxTotal)

\* the same with limits of the caller's choice (ScrollCoalescer::with_config)
InitCustom ==
    /\ pending = <<>>
    /\ config = CustomConfig
    /\ stats = [total_events |-> 0, coalesced_events |-> 0, events_saved |-> 0]
    /\ now = 0
    /\ added = <<>>
    /\ prev_cursor = NoCursor
    /\ returned = <<>>
    /\ pipeline_details = <<>>
    /\ metric_events = [p \in PipelineIds |-> [k \in MetricKinds |-> 0]]
    /\ renderer_txns = <<>>
    /\ target_frame_duration = from_secs_f64_recip(DEFAULT_REFRESH_RATE_HZ).d
    /\ refresh_rate_hz = DEFAULT_REFRESH_RATE_HZ
    /\ last_frame_time = 0
    /\ last_render_start = <<>>
    /\ avg_frame_time = from_secs_f64_recip(DEFAULT_REFRESH_RATE_HZ).d
    /\ avg_render_time = 0
    /\ frame_count = 0
    /\ dropped_frames = 0
    /\ pacing_config = DefaultPacingConfig
    /\ instant = 0
    /\ frame_log = <<>>
    /\ panicked = FALSE
    /\ mem_config = DefaultMemoryPressureConfig
    /\ last_check = 0
    /\ current_level = Normal
    /\ mem_now = 0
    /\ samples = <<>>
    /\ check_returned = NoValue
    /\ check_sampled = FALSE
    /\ composition_request = NoCompositingNecessary
    /\ shutdown_state = NotShuttingDown
    /\ frame_commands = <<>>
    /\ dropped_messages = 0
    /\ requested = <<>>
    /\ ledger = PipelineResources_new
    /\ ledger_returned = <<>>
    /\ ledger_call = [op |-> "new", key |-> NoValue, before |-> PipelineResources_new]
    /\ last_display_list = [pipeline |-> NoPipeline, epoch |-> NoEpoch]
    /\ NEXT_ID = 1
    /\ id_calls = [t \in Threads |-> [pc |-> "idle", before |-> {}, id |-> 0]]
    /\ id_log = <<>>
    /\ contexts = <<>>
    /\ pipeline_contexts = <<>>
    /\ gl_call = [op |-> "new", pipeline |-> NoPipeline, id |-> 0, returned |-> <<>>,
                  before |-> [contexts |-> <<>>, pipeline_contexts |-> <<>>]]
    /\ INIT = "Incomplete"
    /\ INIT_RESULT = <<>>
    /\ backend_inits = <<>>
    /\ media_calls = [t \in Threads |-> [pc |-> "idle", requested |-> "Auto"]]
    /\ media_log = <<>>
    /\ batch_log = <<>>
    /\ returned_log = <<>>
    /\ presented_calls = 0
    /\ progress = ShaderCompilationProgress_new(MaxTotal)

\* the same with a memory monitor of either configuration
\* (MemoryPressureMonitor::new)
InitMemory ==
    /\ pending = <<>>
    /\ config = DefaultConfig
    /\ stats = [total_events |-> 0, coalesced_events |-> 0, events_saved |-> 0]
    /\ now = 0
    /\ added = <<>>
    /\ prev_cursor = NoCursor
    /\ returned = <<>>
    /\ pipeline_details = <<>>
    /\ metric_events = [p \in PipelineIds |-> [k \in MetricKinds |-> 0]]
    /\ renderer_txns = <<>>
    /\ target_frame_duration = from_secs_f64_recip(DEFAULT_REFRESH_RATE_HZ).d
    /\ refresh_rate_hz = DEFAULT_REFRESH_RATE_HZ
    /\ last_frame_time = 0
    /\ last_render_start = <<>>
    /\ avg_frame_time = from_secs_f64_recip(DEFAULT_REFRESH_RATE_HZ).d
    /\ avg_render_time = 0
    /\ frame_count = 0
    /\ dropped_frames = 0
    /\ pacing_config = DefaultPacingConfig
    /\ instant = 0
    /\ frame_log = <<>>
    /\ panicked = FALSE
    /\ mem_config \in MemoryPressureConfigs
    /\ last_check = 0
    /\ current_level = Normal
    /\ mem_now = 0
    /\ samples = <<>>
    /\ check_returned = NoValue
    /\ check_sampled = FALSE
    /\ composition_request = NoCompositingNecessary
    /\ shutdown_state = NotShuttingDown
    /\ frame_commands = <<>>
    /\ dropped_messages = 0
    /\ requested = <<>>
    /\ ledger = PipelineResources_new
    /\ ledger_returned = <<>>
    /\ ledger_call = [op |-> "new", key |-> NoValue, before |-> PipelineResources_new]
    /\ last_display_list = [pipeline |-> NoPipeline, epoch |-> NoEpoch]
    /\ NEXT_ID = 1
    /\ id_calls = [t \in Threads |-> [pc |-> "idle", before |-> {}, id |-> 0]]
    /\ id_log = <<>>
    /\ contexts = <<>>
    /\ pipeline_contexts = <<>>
    /\ gl_call = [op |-> "new", pipeline |-> NoPipeline, id |-> 0, returned |-> <<>>,
                  before |-> [contexts |-> <<>>, pipeline_contexts |-> <<>>]]
    /\ INIT = "Incomplete"
    /\ INIT_RESULT = <<>>
    /\ backend_inits = <<>>
    /\ media_calls = [t \in Threads |-> [pc |-> "idle", requested |-> "Auto"]]
    /\ media_log = <<>>
    /\ batch_log = <<>>
    /\ returned_log = <<>>
    /\ presented_calls = 0
    /\ progress = ShaderCompilationProgress_new(MaxTotal)

(***************************************************************************)
(* The messages and calls as the specifications below deliver them: what   *)
(* the message loop does with them, the model's bounds, and the other      *)
(* components left alone                                                   *)
(***************************************************************************)
AttachPipeline(p, parent, handle) ==
    /\ Deliver(attach_pipeline(p, parent, handle))
    /\ UNCHANGED <<scroll_vars, pace_vars, mem_vars, ledger_vars, epoch_vars, late_vars>>

RetirePipeline(p) ==
    /\ TrackedFor(pipeline_details, p) > 0 => Len(renderer_txns) < MaxInFlight
    /\ Deliver(retire_pipeline(p))
    /\ UNCHANGED <<scroll_vars, pace_vars, mem_vars, ledger_vars, epoch_vars, late_vars>>

NoteDisplayListReceived(p, epoch, first_reflow) ==
    /\ Deliver(note_display_list_received(p, epoch, first_reflow))
    /\ UNCHANGED <<scroll_vars, pace_vars, mem_vars, ledger_vars, epoch_vars, late_vars>>

NoteFramePresented(epochs) ==
    /\ Deliver(note_frame_presented(epochs))
    /\ \A p \in PipelineIds, k \in MetricKinds : metric_events'[p][k] <= MaxMetricEvents
    /\ UNCHANGED <<scroll_vars, pace_vars, mem_vars, ledger_vars, epoch_vars, late_vars>>

ResourceAllocated(p, kind, key) ==
    /\ TrackedFor(pipeline_details, p) < MaxTracked
    /\ Deliver(resource_allocated(p, kind, key))
    /\ UNCHANGED <<scroll_vars, pace_vars, mem_vars, ledger_vars, epoch_vars, late_vars>>

ResourceDeleted(p, kind, key) ==
    /\ Deliver(resource_deleted(p, kind, key))
    /\ UNCHANGED <<scroll_vars, pace_vars, mem_vars, ledger_vars, epoch_vars, late_vars>>

ScrollPipeline(p, delta) ==
    /\ Deliver(scroll_pipeline(p, delta))
    /\ UNCHANGED <<scroll_vars, pace_vars, mem_vars, ledger_vars, epoch_vars, late_vars>>

RendererTakes ==
    renderer_takes /\ UNCHANGED <<scroll_vars, pace_vars, mem_vars, loop_vars, ledger_vars, epoch_vars, late_vars>>

RequestComposite(reason) ==
    /\ Len(requested) < MaxRequests
    /\ request_composite(reason)
    /\ UNCHANGED <<scroll_vars, comp_vars, pace_vars, mem_vars, ledger_vars, epoch_vars, late_vars>>

BeginShutdown ==
    begin_shutdown /\ UNCHANGED <<scroll_vars, comp_vars, pace_vars, mem_vars, ledger_vars, epoch_vars, late_vars>>

FinishShutdown ==
    finish_shutdown /\ UNCHANGED <<scroll_vars, comp_vars, pace_vars, mem_vars, ledger_vars, epoch_vars, late_vars>>

ScrollInput(delta, cursor) ==
    /\ Len(added) < MaxLoopAdds
    /\ deliver_scroll(delta, cursor)
    /\ UNCHANGED <<comp_vars, pace_vars, mem_vars, ledger_vars, epoch_vars, late_vars>>

LoopTick(target, reason) ==
    /\ tick(target, reason)
    /\ Len(frame_commands') <= MaxCommands
    /\ Len(requested') <= MaxRequests
    /\ UNCHANGED <<pace_vars, mem_vars, ledger_vars, epoch_vars, late_vars>>

\* P1 is a top-level pipeline; P2 is one too, or a frame embedded in P1
ParentsOf(p) == IF p = "P1" THEN {NoParent} ELSE {NoParent, "P1"}

(***************************************************************************)
(* SpecPaint: pipelines are attached and retired, display lists arrive     *)
(* and frames are presented, in any order and with any epochs              *)
(***************************************************************************)
PaintNext ==
    \/ \E p \in PipelineIds, h \in Handles : AttachPipeline(p, NoParent, h)
    \/ \E p \in PipelineIds : RetirePipeline(p)
    \/ \E p \in PipelineIds, e \in Epochs, f \in BOOLEAN :
          NoteDisplayListReceived(p, e, f)
    \/ \E m \in EpochMapsOver(PipelineIds, Epochs) : NoteFramePresented(m)

SpecPaint == InitDefault /\ [][PaintNext]_vars

(***************************************************************************)
(* SpecRegistry: pipelines are attached and retired while resources are    *)
(* allocated and deleted on their behalf                                   *)
(***************************************************************************)
RegistryNext ==
    \/ \E p \in PipelineIds, h \in Handles :
          \E parent \in ParentsOf(p) : AttachPipeline(p, parent, h)
    \/ \E p \in PipelineIds : RetirePipeline(p)
    \/ \E p \in PipelineIds, kind \in ResourceKinds :
          \E key \in KeysOf(kind) : ResourceAllocated(p, kind, key)
    \/ \E p \in PipelineIds, kind \in ResourceKinds :
          \E key \in KeysOf(kind) : ResourceDeleted(p, kind, key)
    \/ RendererTakes

SpecRegistry == InitDefault /\ [][RegistryNext]_vars

(***************************************************************************)
(* SpecCompositor: every message, for known and unknown pipelines          *)
(***************************************************************************)
CompositorNext ==
    \/ \E p \in PipelineIds, h \in Handles : AttachPipeline(p, NoParent, h)
    \/ \E p \in PipelineIds : RetirePipeline(p)
    \/ \E p \in PipelineIds : NoteDisplayListReceived(p, 1, TRUE)
    \/ \E m \in EpochMapsOver(PipelineIds, {1}) : NoteFramePresented(m)
    \/ \E p \in PipelineIds : ResourceAllocated(p, "image", "i1")
    \/ \E p \in PipelineIds : ResourceDeleted(p, "image", "i1")
    \/ \E p \in PipelineIds, d \in {-1, 1} : ScrollPipeline(p, d)
    \/ RendererTakes

SpecCompositor == InitDefault /\ [][CompositorNext]_vars

(***************************************************************************)
(* SpecScroll: any sequence of add_event, flush, flush_all, config_mut and *)
(* clock advances, over a few cursors and deltas                           *)
(***************************************************************************)
AddEvent(delta, cursor) ==
    Len(added) < MaxAdds /\ add_event(delta, cursor) /\ UNCHANGED <<comp_vars, pace_vars, mem_vars, loop_vars, ledger_vars, epoch_vars, late_vars>>

Flush == flush /\ UNCHANGED <<comp_vars, pace_vars, mem_vars, loop_vars, ledger_vars, epoch_vars, late_vars>>

FlushAll == flush_all /\ UNCHANGED <<comp_vars, pace_vars, mem_vars, loop_vars, ledger_vars, epoch_vars, late_vars>>

ConfigMut(c) == c # config /\ config_mut(c) /\ UNCHANGED <<comp_vars, pace_vars, mem_vars, loop_vars, ledger_vars, epoch_vars, late_vars>>

Tick(dt) == Advance(dt) /\ UNCHANGED <<comp_vars, pace_vars, mem_vars, loop_vars, ledger_vars, epoch_vars, late_vars>>

ScrollNext ==
    \/ \E d \in Deltas, c \in Cursors : AddEvent(d, c)
    \/ Flush
    \/ FlushAll
    \/ \E c \in Configs : ConfigMut(c)
    \/ \E dt \in TimeSteps : Tick(dt)

SpecScroll == Init /\ [][ScrollNext]_vars

(***************************************************************************)
(* SpecBurst: a fresh coalescer with coalescing enabled receives up to     *)
(* MaxBurst events at one cursor position while the clock runs, and then   *)
(* one flush_all                                                           *)
(***************************************************************************)
BurstAdd(delta) ==
    /\ returned = <<>>
    /\ Len(added) < MaxBurst
    /\ add_event(delta, CursorA)
    /\ UNCHANGED <<comp_vars, pace_vars, mem_vars, loop_vars, ledger_vars, epoch_vars, late_vars>>

BurstFlushAll ==
    pending # <<>> /\ returned = <<>> /\ flush_all /\ UNCHANGED <<comp_vars, pace_vars, mem_vars, loop_vars, ledger_vars, epoch_vars, late_vars>>

BurstTick(dt) == returned = <<>> /\ Advance(dt) /\ UNCHANGED <<comp_vars, pace_vars, mem_vars, loop_vars, ledger_vars, epoch_vars, late_vars>>

BurstNext ==
    \/ \E d \in Deltas : BurstAdd(d)
    \/ BurstFlushAll
    \/ \E dt \in TimeSteps : BurstTick(dt)

SpecBurst == InitDefault /\ [][BurstNext]_vars

(***************************************************************************)
(* SpecMany: long runs of add_event, flush and flush_all with one delta    *)
(* and one cursor, so that batches reach the event limit                   *)
(***************************************************************************)
ManyAdd(cursor) ==
    Len(added) < MaxBurst /\ add_event(<<0, -5>>, cursor) /\ UNCHANGED <<comp_vars, pace_vars, mem_vars, loop_vars, ledger_vars, epoch_vars, late_vars>>

ManyFlush == flush /\ UNCHANGED <<comp_vars, pace_vars, mem_vars, loop_vars, ledger_vars, epoch_vars, late_vars>>

ManyFlushAll == pending # <<>> /\ flush_all /\ UNCHANGED <<comp_vars, pace_vars, mem_vars, loop_vars, ledger_vars, epoch_vars, late_vars>>

ManyTick(dt) == Advance(dt) /\ UNCHANGED <<comp_vars, pace_vars, mem_vars, loop_vars, ledger_vars, epoch_vars, late_vars>>

ManyNext ==
    \/ \E c \in {CursorA} : ManyAdd(c)
    \/ ManyFlush
    \/ ManyFlushAll
    \/ \E dt \in TimeSteps : ManyTick(dt)

SpecMany == Init /\ [][ManyNext]_vars

(***************************************************************************)
(* SpecCustom: a coalescer built with limits of its own, which config_mut  *)
(* may replace with the defaults and back                                  *)
(***************************************************************************)
CustomAdd(delta, cursor) ==
    Len(added) < MaxAdds /\ add_event(delta, cursor) /\ UNCHANGED <<comp_vars, pace_vars, mem_vars, loop_vars, ledger_vars, epoch_vars, late_vars>>

CustomFlushAll == pending # <<>> /\ flush_all /\ UNCHANGED <<comp_vars, pace_vars, mem_vars, loop_vars, ledger_vars, epoch_vars, late_vars>>

CustomConfigMut(c) == c # config /\ config_mut(c) /\ UNCHANGED <<comp_vars, pace_vars, mem_vars, loop_vars, ledger_vars, epoch_vars, late_vars>>

CustomTick(dt) == Advance(dt) /\ UNCHANGED <<comp_vars, pace_vars, mem_vars, loop_vars, ledger_vars, epoch_vars, late_vars>>

CustomNext ==
    \/ \E c \in Cursors : CustomAdd(<<0, -5>>, c)
    \/ CustomFlushAll
    \/ \E c \in {DefaultConfig, CustomConfig} : CustomConfigMut(c)
    \/ \E dt \in TimeSteps : CustomTick(dt)

SpecCustom == InitCustom /\ [][CustomNext]_vars

(***************************************************************************)
(* SpecPacing: any sequence of set_refresh_rate, begin_frame,              *)
(* on_frame_presented, reset_stats and configuration changes while time    *)
(* passes                                                                  *)
(***************************************************************************)
\* frames presented per run of the general pacer specification
MaxFrames == 1

\* frames presented per run of the steady-rate specification
MaxSteadyFrames == 10

\* the ages of the last frame at which the pacer is looked at: just before
\* and at the target duration, and just after the drop limit
WaitPoints ==
    {target_frame_duration - 1,
     target_frame_duration,
     mul_f64(target_frame_duration, pacing_config.drop_threshold) + 1}

SetRefreshRate(hz) == set_refresh_rate(hz) /\ UNCHANGED <<scroll_vars, comp_vars, mem_vars, loop_vars, ledger_vars, epoch_vars, late_vars>>

\* rendering of the next frame starts when the last one has been presented
BeginFrame ==
    /\ frame_elapsed = 0
    /\ last_render_start # <<instant>>
    /\ begin_frame
    /\ UNCHANGED <<scroll_vars, comp_vars, mem_vars, loop_vars, ledger_vars, epoch_vars, late_vars>>

OnFramePresented ==
    /\ Len(frame_log) < MaxFrames
    /\ on_frame_presented
    /\ UNCHANGED <<scroll_vars, comp_vars, mem_vars, loop_vars, ledger_vars, epoch_vars, late_vars>>

ResetStats == reset_stats /\ UNCHANGED <<scroll_vars, comp_vars, mem_vars, loop_vars, ledger_vars, epoch_vars, late_vars>>

PacingConfigMut(c) ==
    c # pacing_config /\ pacing_config_mut(c) /\ UNCHANGED <<scroll_vars, comp_vars, mem_vars, loop_vars, ledger_vars, epoch_vars, late_vars>>

WaitUntil(e) == wait_until_elapsed(e) /\ UNCHANGED <<scroll_vars, comp_vars, mem_vars, loop_vars, ledger_vars, epoch_vars, late_vars>>

PacingNext ==
    \/ \E hz \in Rates : SetRefreshRate(hz)
    \/ BeginFrame
    \/ OnFramePresented
    \/ ResetStats
    \/ \E c \in PacingConfigs : PacingConfigMut(c)
    \/ \E e \in WaitPoints : WaitUntil(e)

SpecPacing == InitDefault /\ [][PacingNext]_vars

(***************************************************************************)
(* SpecSteady: a pacer with the default configuration, at 60 Hz or set to  *)
(* 50 Hz before the first frame, presents up to MaxSteadyFrames frames,    *)
(* each one when the previous one is a target duration old, at the drop    *)
(* limit old, or just past the drop limit                                  *)
(***************************************************************************)
SteadySetRate(hz) ==
    frame_log = <<>> /\ instant = 0 /\ set_refresh_rate(hz)
    /\ UNCHANGED <<scroll_vars, comp_vars, mem_vars, loop_vars, ledger_vars, epoch_vars, late_vars>>

SteadyWait(e) ==
    /\ Len(frame_log) < MaxSteadyFrames
    /\ frame_elapsed = 0
    /\ wait_until_elapsed(e)
    /\ UNCHANGED <<scroll_vars, comp_vars, mem_vars, loop_vars, ledger_vars, epoch_vars, late_vars>>

SteadyPresent ==
    /\ Len(frame_log) < MaxSteadyFrames
    /\ frame_elapsed > 0
    /\ on_frame_presented
    /\ UNCHANGED <<scroll_vars, comp_vars, mem_vars, loop_vars, ledger_vars, epoch_vars, late_vars>>

SteadyNext ==
    \/ \E hz \in {Hz(50), Hz(361)} : SteadySetRate(hz)
    \/ \E e \in {target_frame_duration,
                 mul_f64(target_frame_duration, pacing_config.drop_threshold),
                 mul_f64(target_frame_duration, pacing_config.drop_threshold) + 1} :
          SteadyWait(e)
    \/ SteadyPresent

SpecSteady == InitDefault /\ [][SteadyNext]_vars

(***************************************************************************)
(* Pipeline registry and paint metrics: properties                         *)
(***************************************************************************)
\* the pipeline has an entry whose slot k is Sent
IsSent(details, p, k) == p \in DOMAIN details /\ details[p][k] = Sent

\* C1: a slot becomes Sent only from Seen(e, _) and only in
\* note_frame_presented, and every frame-presented notification that makes
\* the step names the slot's pipeline with an epoch >= e.
SentOnlyWhenPresented ==
    [][\A p \in PipelineIds, k \in MetricKinds :
          (IsSent(pipeline_details', p, k) /\ ~IsSent(pipeline_details, p, k))
          => /\ p \in Registered
             /\ pipeline_details[p][k].state = "Seen"
             /\ \E m \in EpochMapsOver(PipelineIds, Epochs) : NoteFramePresented(m)
             /\ \A m \in EpochMapsOver(PipelineIds, Epochs) :
                   NoteFramePresented(m)
                   => (p \in DOMAIN m /\ m[p] >= pipeline_details[p][k].epoch)]_vars

\* P1's first paint was reported after a display list of the last epoch,
\* while P2 has seen a display list that is not reported yet
SentWhenPresentedWitness ==
    /\ Registered = PipelineIds
    /\ pipeline_details["P1"].first_paint_metric = Sent
    /\ pipeline_details["P1"].most_recent_display_list_epoch = MaxEpoch
    /\ metric_events["P1"].first_paint_metric = 1
    /\ pipeline_details["P2"].first_paint_metric.state = "Seen"
    /\ metric_events["P2"].first_paint_metric = 0

\* C2: an event for (pipeline, metric) is sent only together with that
\* slot's step from Seen to Sent, one event per step; while the slot is Sent
\* and the pipeline stays registered, nothing more is sent for it, whatever
\* frames are presented.
MetricEventAtMostOnce ==
    [][\A p \in PipelineIds, k \in MetricKinds :
          /\ metric_events'[p][k] \in {metric_events[p][k], metric_events[p][k] + 1}
          /\ metric_events'[p][k] = metric_events[p][k] + 1
             => /\ p \in Registered
                /\ pipeline_details[p][k].state = "Seen"
                /\ IsSent(pipeline_details', p, k)
          /\ (IsSent(pipeline_details, p, k) /\ p \in DOMAIN pipeline_details')
             => /\ IsSent(pipeline_details', p, k)
                /\ metric_events'[p][k] = metric_events[p][k]]_vars

\* P1 has reported both metrics once, was retired, attached again and has
\* reported them a second time; P2 has reported them once
MetricEventWitness ==
    /\ Registered = PipelineIds
    /\ \A k \in MetricKinds :
          /\ pipeline_details["P1"][k] = Sent
          /\ metric_events["P1"][k] = 2
          /\ pipeline_details["P2"][k] = Sent
          /\ metric_events["P2"][k] = 1

\* C3: while a pipeline stays registered its slots start in Waiting and only
\* go Waiting -> Seen(epoch, is_first_reflow), on note_display_list_received
\* with that epoch and flag, and Seen -> Sent; a display list received while
\* the slot is Seen or Sent leaves the slot unchanged.
PaintMetricProgress ==
    [][\A p \in PipelineIds, k \in MetricKinds :
          /\ (p \notin Registered /\ p \in DOMAIN pipeline_details')
             => pipeline_details'[p][k] = Waiting
          /\ (p \in Registered /\ p \in DOMAIN pipeline_details')
             => LET a == pipeline_details[p][k]
                    b == pipeline_details'[p][k]
                IN /\ a = Waiting
                      => \/ b = Waiting
                         \/ \E e \in Epochs, f \in BOOLEAN :
                               /\ NoteDisplayListReceived(p, e, f)
                               /\ b = Seen(e, f)
                   /\ a.state = "Seen" => (b = a \/ b = Sent)
                   /\ a = Sent => b = Sent
                   /\ (a # Waiting /\ \E e \in Epochs, f \in BOOLEAN :
                                          NoteDisplayListReceived(p, e, f))
                      => b = a]_vars

\* P1's slot holds the epoch and flag of the first display list although a
\* later display list has been received
PaintMetricProgressWitness ==
    /\ "P1" \in Registered
    /\ pipeline_details["P1"].first_paint_metric = Seen(1, TRUE)
    /\ pipeline_details["P1"].most_recent_display_list_epoch = MaxEpoch

\* C4: retire_pipeline(p) of a registered pipeline leaves no entry for p and
\* no resource tracked for p; if the ledger was not empty, one cleanup
\* transaction with exactly the ledger's handles is sent, else none.
RetireDrainsLedger ==
    [][\A p \in PipelineIds :
          (p \in Registered /\ RetirePipeline(p))
          => LET r == pipeline_details[p].resources
             IN /\ p \notin DOMAIN pipeline_details'
                /\ TrackedFor(pipeline_details', p) = 0
                /\ IF resource_count(r) = 0
                   THEN renderer_txns' = renderer_txns
                   ELSE /\ Len(renderer_txns') = Len(renderer_txns) + 1
                        /\ SubSeq(renderer_txns', 1, Len(renderer_txns)) = renderer_txns
                        /\ LET tx == renderer_txns'[Len(renderer_txns')]
                           IN /\ tx.image_keys = r.image_keys
                              /\ tx.font_keys = r.font_keys
                              /\ tx.font_instance_keys = r.font_instance_keys]_vars

\* a pipeline that held an image and a font has been retired: its cleanup
\* transaction is on its way and the registry has no entry for it
RetireWitness ==
    /\ "P1" \notin Registered
    /\ "P2" \in Registered
    /\ resource_count(pipeline_details["P2"].resources) = MaxTracked
    /\ renderer_txns = << [image_keys |-> <<"i1">>, font_keys |-> <<"f1">>,
                           font_instance_keys |-> <<>>] >>

\* C5: a message other than attach_pipeline that references only pipelines
\* without an entry changes nothing; a frame-presented notification that
\* also names known pipelines acts as if it named only those; and an entry
\* is created by attach_pipeline alone.
UnknownPipelineIgnored ==
    [][\A p \in PipelineIds \ Registered :
          /\ RetirePipeline(p) => UNCHANGED vars
          /\ (\E e \in Epochs, f \in BOOLEAN : NoteDisplayListReceived(p, e, f))
             => UNCHANGED vars
          /\ (\E kind \in ResourceKinds : \E key \in KeysOf(kind) :
                 ResourceAllocated(p, kind, key) \/ ResourceDeleted(p, kind, key))
             => UNCHANGED vars
          /\ (\E d \in {-1, 1} : ScrollPipeline(p, d)) => UNCHANGED vars
          /\ \A m \in EpochMapsOver(PipelineIds, Epochs) :
                (p \in DOMAIN m /\ NoteFramePresented(m))
                => /\ p \notin DOMAIN pipeline_details'
                   /\ DOMAIN m \cap Registered = {} => UNCHANGED vars
                   /\ NoteFramePresented([q \in DOMAIN m \cap Registered |-> m[q]])
          /\ p \in DOMAIN pipeline_details'
             => \E parent \in ParentsOf(p), h \in Handles : AttachPipeline(p, parent, h)]_vars

\* P1 was registered, reported its first paint and was retired; P2 is
\* registered, has scrolled and holds a resource
UnknownPipelineWitness ==
    /\ Registered = {"P2"}
    /\ metric_events["P1"].first_paint_metric = 1
    /\ pipeline_details["P2"].scroll_tree = MaxScroll
    /\ pipeline_details["P2"].first_paint_metric.state = "Seen"
    /\ resource_count(pipeline_details["P2"].resources) = 1

(***************************************************************************)
(* Scroll coalescer: properties                                            *)
(***************************************************************************)
\* C6: the deltas of all batches returned so far plus the deltas of the
\* batches still pending sum, component by component, to the sum of the
\* deltas of all raw events added.
DisplacementPreserved ==
    VecAdd(SumDeltas(BatchDeltas(returned)), SumDeltas(BatchDeltas(pending)))
        = SumDeltas(added)

\* three events were added, two of them merged into one batch, and a batch
\* was returned while another is pending
DisplacementWitness ==
    /\ Len(added) = 3
    /\ returned # <<>>
    /\ pending # <<>>
    /\ \E b \in Range(returned) \cup Range(pending) : b.event_count = 2
    /\ SumDeltas(added) = <<6, -3>>

\* what a flushed burst looks like: full batches of MAX_COALESCED_EVENTS
\* events in creation order, the last one taking the remainder, each with
\* the sum of the deltas of its own events
ExpectedBatches(adds) ==
    LET n == Len(adds)
        k == (n + MAX_COALESCED_EVENTS - 1) \div MAX_COALESCED_EVENTS
        lo(i) == MAX_COALESCED_EVENTS * (i - 1) + 1
        hi(i) == IF i < k THEN MAX_COALESCED_EVENTS * i ELSE n
    IN [i \in 1..k |-> [event_count |-> hi(i) - lo(i) + 1,
                        delta       |-> SumDeltas(SubSeq(adds, lo(i), hi(i)))]]

CountAndDelta(s) ==
    [i \in 1..Len(s) |-> [event_count |-> s[i].event_count, delta |-> s[i].delta]]

\* every event of the burst arrived while the first event was at most
\* MAX_COALESCE_TIME_MS old
BurstWithinHold ==
    /\ returned # <<>>
    /\ returned[Len(returned)].last_event_time - returned[1].first_event_time
           <= MAX_COALESCE_TIME_MS

\* C7: n events added at one cursor position within the hold time and then
\* flush_all give ceil(n/10) batches in creation order, all but the last
\* with 10 events, the last with the remainder, each batch's delta being
\* the sum of its own events' deltas; 12 events of delta (0,-5) give
\* (10, (0,-50)) and then (2, (0,-10)).
BurstBatches ==
    BurstWithinHold =>
        /\ pending = <<>>
        /\ CountAndDelta(returned) = ExpectedBatches(added)
        /\ added = [i \in 1..12 |-> <<0, -5>>] =>
               CountAndDelta(returned) =
                   << [event_count |-> 10, delta |-> <<0, -50>>],
                      [event_count |-> 2,  delta |-> <<0, -10>>] >>

\* a burst of 12 events with both deltas, part of it arriving when the first
\* event was 16 ms old, has been flushed into two batches
BurstWitness ==
    /\ BurstWithinHold
    /\ Len(added) = 12
    /\ Len(returned) = 2
    /\ returned[1].last_event_time = MAX_COALESCE_TIME_MS
    /\ returned[1].first_event_time = 0
    /\ returned[1].delta = <<3, -44>>
    /\ returned[2].delta = <<3, -4>>

\* C8: every pending batch and every returned batch holds at least one and
\* at most MAX_COALESCED_EVENTS events.
EventCountBounded ==
    \A b \in Range(pending) \cup Range(returned) :
        1 <= b.event_count /\ b.event_count <= MAX_COALESCED_EVENTS

\* a full batch was returned by flush (not flush_all: another batch, created
\* by the eleventh event, is still pending)
EventCountWitness ==
    /\ config.enabled
    /\ \E b \in Range(returned) : b.event_count = MAX_COALESCED_EVENTS
    /\ Len(pending) = 1
    /\ pending[1].event_count = 2

\* no step combines two batches: batches are only created, extended by the
\* one event being added, or moved unchanged from pending to returned
NoBatchesCombined ==
    /\ Len(pending') + Len(returned') >= Len(pending) + Len(returned)
    /\ \A b \in Range(pending') :
          \/ b \in Range(pending)
          \/ b.event_count = 1
          \/ \E i \in 1..Len(pending) :
                /\ i <= Len(pending')
                /\ pending'[i] = b
                /\ b.first_event_time = pending[i].first_event_time
                /\ b.event_count = pending[i].event_count + 1
                /\ \A j \in 1..Len(pending) : j # i => pending'[j] = pending[j]
    /\ \A b \in Range(returned') : b \in Range(returned) \cup Range(pending)

MergeableBelow(b, cursor, t) ==
    /\ cursor_distance(b.cursor, cursor) <= 100
    /\ b.event_count < MAX_COALESCED_EVENTS
    /\ t - b.first_event_time < MAX_COALESCE_TIME_MS

\* the same, the age in whole milliseconds being at most the maximum
MergeableAtMost(b, cursor, t) ==
    /\ cursor_distance(b.cursor, cursor) <= 100
    /\ b.event_count < MAX_COALESCED_EVENTS
    /\ t - b.first_event_time <= MAX_COALESCE_TIME_MS

\* add_event(d, c) under the rule "merge into the first pending batch that
\* is mergeable, else append one new batch of one event"
MergeStep(Mergeable(_, _, _), d, c) ==
    LET S == {i \in 1..Len(pending) : Mergeable(pending[i], c, now)}
    IN IF S = {}
       THEN pending' = Append(pending, new_event(d, c, now))
       ELSE /\ Len(pending') = Len(pending)
            /\ \A j \in 1..Len(pending) :
                  IF j = Min(S)
                  THEN /\ pending'[j].event_count = pending[j].event_count + 1
                       /\ pending'[j].delta = VecAdd(pending[j].delta, d)
                       /\ pending'[j].cursor = c
                       /\ pending'[j].first_event_time = pending[j].first_event_time
                  ELSE pending'[j] = pending[j]

RECURSIVE Pick(_, _)
Pick(s, I) == IF I = {} THEN <<>> ELSE <<s[Min(I)]>> \o Pick(s, I \ {Min(I)})

\* the positions of the pending batches that are due: event count at the
\* limit, or age past the limit
DuePositions ==
    {i \in 1..Len(pending) :
        \/ pending[i].event_count >= MAX_COALESCED_EVENTS
        \/ now - pending[i].first_event_time > MAX_COALESCE_TIME_MS}

\* C11: flush returns exactly the pending batches that are due, in order,
\* and leaves the others pending, unchanged and in order; flush_all returns
\* every pending batch in order and leaves none pending.
FlushReturnsDue ==
    [][/\ ManyFlush
          => /\ returned' = returned \o Pick(pending, DuePositions)
             /\ pending' = Pick(pending, (1..Len(pending)) \ DuePositions)
       /\ ManyFlushAll
          => /\ returned' = returned \o pending
             /\ pending' = <<>>]_vars

\* flush has returned a batch that was too old and a batch that was full,
\* and has left the batch opened after them pending
FlushWitness ==
    /\ config.enabled
    /\ Len(returned) = 2
    /\ returned[1].event_count = 1
    /\ returned[1].first_event_time = 0
    /\ returned[2].event_count = MAX_COALESCED_EVENTS
    /\ returned[2].first_event_time = MAX_COALESCE_TIME_MS + 1
    /\ Len(pending) = 1
    /\ pending[1].first_event_time = MAX_COALESCE_TIME_MS + 1

\* C12: the event counts of the batches returned so far and of the batches
\* pending sum to the number of add_event calls; what was returned stays
\* returned, and a batch that is returned leaves the pending list.
NoEventLostOrDoubled ==
    /\ [](SumCounts(returned) + SumCounts(pending) = Len(added))
    /\ [][/\ Len(returned') >= Len(returned)
          /\ SubSeq(returned', 1, Len(returned)) = returned
          /\ Len(returned') > Len(returned)
             => /\ Len(pending') = Len(pending) - (Len(returned') - Len(returned))
                /\ \A i \in (Len(returned) + 1)..Len(returned') :
                      returned'[i] \in Range(pending)]_vars

\* three events were added; one batch of two was returned by flush and the
\* third event is pending
NoEventLostWitness ==
    /\ Len(added) = 3
    /\ Len(returned) = 1
    /\ returned[1].event_count = 2
    /\ Len(pending) = 1
    /\ pending[1].first_event_time = MAX_COALESCE_TIME_MS + 1

\* C13: total_events counts the add_event calls, events_saved the events
\* merged into an existing batch (every event of a batch but its first),
\* coalesced_events the batches returned; so total_events = events_saved +
\* coalesced_events + pending batches, and five events merged into one batch
\* and flushed give 5, 4 and 1.
StatsAccount ==
    /\ stats.total_events = Len(added)
    /\ stats.events_saved =
           (SumCounts(returned) + SumCounts(pending)) - (Len(returned) + Len(pending))
    /\ stats.coalesced_events = Len(returned)
    /\ stats.total_events = stats.events_saved + stats.coalesced_events + Len(pending)
    /\ (Len(added) = 5 /\ pending = <<>> /\ Len(returned) = 1)
       => stats = [total_events |-> 5, events_saved |-> 4, coalesced_events |-> 1]

\* five events at one cursor, merged into one batch and returned by
\* flush_all
StatsWitness ==
    /\ config.enabled
    /\ Len(added) = 5
    /\ pending = <<>>
    /\ Len(returned) = 1
    /\ returned[1].event_count = 5
    /\ stats.events_saved = 4

\* C14: the limits of the configuration in force are the ones applied: an
\* event is merged only into a batch that holds fewer than
\* config.max_coalesced_events events, is at most
\* config.max_coalesce_time_ms old and whose cursor is within
\* config.cursor_threshold_px of the event's.
ConfigLimitsApplied ==
    [][\A c \in Cursors :
          (config.enabled /\ CustomAdd(<<0, -5>>, c))
          => \A i \in 1..Len(pending) :
                pending'[i] # pending[i]
                => /\ pending[i].event_count < config.max_coalesced_events
                   /\ now - pending[i].first_event_time <= config.max_coalesce_time_ms
                   /\ cursor_distance(pending[i].cursor, c)
                         <= config.cursor_threshold_px * config.cursor_threshold_px]_vars

(***************************************************************************)
(* Frame pacer: properties                                                 *)
(***************************************************************************)
\* a rate that set_refresh_rate has to reject: not above zero, above 360 Hz,
\* or not a number
InvalidRate(hz) ==
    \/ hz.class = "nan"
    \/ hz.class = "hz" /\ (hz.n <= 0 \/ hz.n > 360)

\* C15: set_refresh_rate(hz) with an invalid rate leaves refresh_rate_hz and
\* target_frame_duration as they were; with a valid rate it replaces both,
\* the rate by hz and the duration by 1 / hz.
RefreshRateKeptOrReplaced ==
    [][\A hz \in Rates :
          SetRefreshRate(hz)
          => IF InvalidRate(hz)
             THEN UNCHANGED <<refresh_rate_hz, target_frame_duration>>
             ELSE /\ refresh_rate_hz' = hz
                  /\ from_secs_f64_recip(hz).ok
                  /\ target_frame_duration' = from_secs_f64_recip(hz).d]_vars

\* C16: in every reachable state target_frame_duration is above zero and is
\* 1 / refresh_rate_hz, with 0 < refresh_rate_hz <= 360.
TargetIsPeriodOfRate ==
    /\ target_frame_duration > 0
    /\ ~InvalidRate(refresh_rate_hz)
    /\ from_secs_f64_recip(refresh_rate_hz).ok
    /\ target_frame_duration = from_secs_f64_recip(refresh_rate_hz).d

\* frame i of the log came exactly one target duration after the one before
OnTime(i) == frame_log[i].frame_time = frame_log[i].target

\* C17: on_frame_presented adds one to dropped_frames when the time since
\* the previously presented frame is greater than drop_threshold times the
\* target duration, and leaves it unchanged otherwise; ten frames in a row,
\* each one target duration after the one before, record no drop.
DropCountedWhenLate ==
    /\ [][SteadyPresent
          => LET frame_time == instant - last_frame_time
                 r == pacing_config.drop_threshold
             IN dropped_frames' =
                    IF frame_time * r.den > r.num * target_frame_duration
                    THEN dropped_frames + 1
                    ELSE dropped_frames]_vars
    /\ []((Len(frame_log) = 10 /\ \A i \in 1..10 : OnTime(i)) => dropped_frames = 0)

\* ten frames at 60 Hz, each 16666667 ns after the one before, and no drop
DropCountedWitness ==
    /\ Len(frame_log) = 10
    /\ \A i \in 1..10 : OnTime(i) /\ frame_log[i].frame_time = 16666667
    /\ frame_count = 10
    /\ dropped_frames = 0

\* C18, as stated: no operation of the pacer makes dropped_frames smaller.
DropsNeverDecrease ==
    [][dropped_frames' >= dropped_frames]_vars

\* C18, amended: dropped_frames grows only in on_frame_presented, and then
\* by one; it becomes smaller only in reset_stats, which sets it to zero;
\* every other operation leaves it as it is.
DropsDecreaseOnlyOnReset ==
    [][/\ dropped_frames' > dropped_frames
          => OnFramePresented /\ dropped_frames' = dropped_frames + 1
       /\ dropped_frames' < dropped_frames
          => ResetStats /\ dropped_frames' = 0]_vars

\* a late frame was counted as dropped, and reset_stats has then cleared
\* the counters
DropsResetWitness ==
    /\ Len(frame_log) = 1
    /\ frame_log[1].frame_time > frame_log[1].limit
    /\ frame_count = 0
    /\ dropped_frames = 0

\* C19: with vsync and adaptive mode on, when the frame just presented took
\* longer than target_frame_duration times drop_threshold,
\* should_generate_frame() is true right after on_frame_presented.
GenerateAtOnceWhenBehind ==
    [][( /\ OnFramePresented
         /\ pacing_config.vsync_enabled
         /\ pacing_config.adaptive_vsync
         /\ instant - last_frame_time
               > mul_f64(target_frame_duration, pacing_config.drop_threshold) )
       => should_generate_frame']_vars

\* C20, as stated: with vsync enabled, should_generate_frame() is true
\* exactly when the last frame is at least a target duration old, which is
\* exactly when time_until_next_frame() is zero.
GenerateIffNothingToWait ==
    pacing_config.vsync_enabled
    => /\ should_generate_frame <=> frame_elapsed >= target_frame_duration
       /\ should_generate_frame <=> time_until_next_frame = 0

\* the last frame is at least drop_threshold times the target duration old
PastDropLimit ==
    LET r == pacing_config.drop_threshold
    IN frame_elapsed * r.den >= r.num * target_frame_duration

\* C20, amended: with vsync enabled, time_until_next_frame() is zero exactly
\* when the last frame is at least a target duration old, and
\* should_generate_frame() is true exactly when it is that old or, in
\* adaptive mode, at least drop_threshold times the target duration old; the
\* two agree when adaptive mode is off or drop_threshold is at least 1.
GenerateIffDueOrPastDropLimit ==
    pacing_config.vsync_enabled
    => /\ time_until_next_frame = 0 <=> frame_elapsed >= target_frame_duration
       /\ should_generate_frame
             <=> \/ frame_elapsed >= target_frame_duration
                 \/ pacing_config.adaptive_vsync /\ PastDropLimit
       /\ ( \/ ~pacing_config.adaptive_vsync
            \/ pacing_config.drop_threshold.num >= pacing_config.drop_threshold.den )
          => (should_generate_frame <=> time_until_next_frame = 0)

\* adaptive mode with a drop_threshold of 0.5: a frame is due although the
\* target duration has not yet passed
GenerateEarlyWitness ==
    /\ pacing_config.vsync_enabled
    /\ pacing_config.adaptive_vsync
    /\ pacing_config.drop_threshold = [num |-> 1, den |-> 2]
    /\ frame_elapsed = target_frame_duration - 1
    /\ should_generate_frame
    /\ time_until_next_frame = 1

(***************************************************************************)
(* The memory pressure monitor alone: checks at any time, with any         *)
(* utilization being read                                                  *)
(***************************************************************************)
\* the clock is moved into the interval, to just before its end, to its end
\* and past it
MemWaitPoints ==
    {1, mem_config.check_interval - 1, mem_config.check_interval,
     mem_config.check_interval + 1}

Check(usage) ==
    /\ should_check => Len(samples) < MaxSamples
    /\ check(usage)
    /\ UNCHANGED <<scroll_vars, comp_vars, pace_vars, loop_vars, ledger_vars, epoch_vars, late_vars>>

MemElapse(e) ==
    /\ mem_elapse(e)
    /\ UNCHANGED <<scroll_vars, comp_vars, pace_vars, loop_vars, ledger_vars, epoch_vars, late_vars>>

MemoryNext ==
    \/ \E usage \in Usages : Check(usage)
    \/ \E e \in MemWaitPoints : MemElapse(e)

SpecMemory == InitMemory /\ [][MemoryNext]_vars


(***************************************************************************)
(* Properties of the memory pressure monitor                               *)
(***************************************************************************)
\* a call of check() that comes to sample the memory, and one that does not
DueCheck ==
    /\ mem_now - last_check >= mem_config.check_interval
    /\ \E usage \in Usages : Check(usage)

EarlyCheck ==
    /\ mem_now - last_check < mem_config.check_interval
    /\ \E usage \in Usages : Check(usage)

\* the utilization read by the sample just taken
Sampled == samples'[Len(samples')]

\* C21 as stated: a due check returns the level of the sampled utilization
\* alone: below the warning threshold Normal with factor 1.0, between the
\* thresholds Warning with warning_cache_factor, at or above the critical
\* threshold Critical with critical_cache_factor
LevelAtOrAboveCritical ==
    [][DueCheck =>
         /\ Sampled < mem_config.warning_threshold
              => check_returned' = Normal /\ cache_reduction_factor' = One
         /\ Sampled > mem_config.warning_threshold
              /\ Sampled < mem_config.critical_threshold
              => /\ check_returned' = Warning
                 /\ cache_reduction_factor' = mem_config.warning_cache_factor
         /\ Sampled >= mem_config.critical_threshold
              => /\ check_returned' = Critical
                 /\ cache_reduction_factor' = mem_config.critical_cache_factor]_vars

\* C21 amended: a due check returns the level of the sampled utilization
\* alone, whatever the level was before: at or below the warning threshold
\* Normal with factor 1.0, above the warning threshold and at or below the
\* critical one Warning with warning_cache_factor, and only above the
\* critical threshold Critical with critical_cache_factor
LevelAboveCritical ==
    [][DueCheck =>
         /\ check_returned' = current_level'
         /\ Sampled <= mem_config.warning_threshold
              => current_level' = Normal /\ cache_reduction_factor' = One
         /\ Sampled > mem_config.warning_threshold
              /\ Sampled <= mem_config.critical_threshold
              => /\ current_level' = Warning
                 /\ cache_reduction_factor' = mem_config.warning_cache_factor
         /\ Sampled > mem_config.critical_threshold
              => /\ current_level' = Critical
                 /\ cache_reduction_factor' = mem_config.critical_cache_factor]_vars

\* a utilization exactly at the critical threshold has been sampled while
\* the level was Critical, and the level is Warning now
LevelAboveCriticalWitness ==
    /\ Len(samples) = 2
    /\ samples[1] > mem_config.critical_threshold
    /\ samples[2] = mem_config.critical_threshold
    /\ current_level = Warning
    /\ check_returned = Warning

\* C22: a check() made before check_interval has elapsed since the last
\* sample returns the level unchanged, takes no sample and leaves last_check
\* alone, so it returns what the call before it returned, and the interval
\* still runs from the last sample
EarlyCheckIsNoOp ==
    [][EarlyCheck =>
         /\ check_returned' = current_level
         /\ current_level' = current_level
         /\ samples' = samples
         /\ ~check_sampled'
         /\ last_check' = last_check
         /\ check_returned # NoValue => check_returned' = check_returned]_vars

\* after a sample that found pressure, a second check fell into the same
\* interval and returned the level without sampling
EarlyCheckWitness ==
    /\ samples # <<>>
    /\ current_level # Normal
    /\ check_returned = current_level
    /\ ~check_sampled
    /\ mem_now > last_check
    /\ mem_now - last_check < mem_config.check_interval

(***************************************************************************)
(* One resource ledger alone: keys of every kind are tracked, also twice,  *)
(* untracked, also when they are not there, and the ledger is cleared      *)
(***************************************************************************)
\* the length of one list of the ledger
MaxKeys == 3

LedgerKeys(kind) ==
    CASE kind = "image" -> {"i1", "i2"}
      [] kind = "font" -> {"f1"}
      [] kind = "font_instance" -> {"g1"}

ListOf(r, kind) ==
    CASE kind = "image" -> r.image_keys
      [] kind = "font" -> r.font_keys
      [] kind = "font_instance" -> r.font_instance_keys

LedgerTrack(kind, key) ==
    /\ Len(ListOf(ledger, kind)) < MaxKeys
    /\ ledger_track(kind, key)
    /\ UNCHANGED <<scroll_vars, comp_vars, pace_vars, mem_vars, loop_vars, epoch_vars, late_vars>>

LedgerUntrack(kind, key) ==
    /\ ledger_untrack(kind, key)
    /\ UNCHANGED <<scroll_vars, comp_vars, pace_vars, mem_vars, loop_vars, epoch_vars, late_vars>>

LedgerClear ==
    /\ ledger_clear
    /\ UNCHANGED <<scroll_vars, comp_vars, pace_vars, mem_vars, loop_vars, epoch_vars, late_vars>>

LedgerNext ==
    \/ \E kind \in ResourceKinds : \E key \in LedgerKeys(kind) : LedgerTrack(kind, key)
    \/ \E kind \in ResourceKinds : \E key \in LedgerKeys(kind) : LedgerUntrack(kind, key)
    \/ LedgerClear

SpecLedger == InitDefault /\ [][LedgerNext]_vars

(***************************************************************************)
(* Properties of the resource ledger                                       *)
(***************************************************************************)
\* C23 as stated: the call that empties the ledger empties all three lists
\* in one step and returns their prior contents as one cleanup descriptor
ClearReturnsContents ==
    [][LedgerClear =>
         /\ is_empty(ledger')
         /\ ledger_returned' = <<cleanup_transaction(ledger)>>]_vars

\* C23 amended: clear() empties all three lists in one step, so that no
\* state with some kinds emptied and others not is seen, and returns
\* nothing: what was tracked is in the lists before the call only
ClearEmptiesAllKinds ==
    [][LedgerClear =>
         /\ ledger'.image_keys = <<>>
         /\ ledger'.font_keys = <<>>
         /\ ledger'.font_instance_keys = <<>>
         /\ ledger_returned' = <<>>]_vars

\* a ledger with keys of all three kinds in it has been cleared
ClearWitness ==
    /\ ledger_call.op = "clear"
    /\ ledger_call.before.image_keys # <<>>
    /\ ledger_call.before.font_keys # <<>>
    /\ ledger_call.before.font_instance_keys # <<>>
    /\ is_empty(ledger)

\* the list without every occurrence of key, the others in their order
RECURSIVE Without(_, _)
Without(s, key) ==
    IF s = <<>> THEN <<>>
    ELSE IF Head(s) = key THEN Without(Tail(s), key)
    ELSE <<Head(s)>> \o Without(Tail(s), key)

\* how often key occurs in the list
RECURSIVE Occurrences(_, _)
Occurrences(s, key) ==
    IF s = <<>> THEN 0
    ELSE (IF Head(s) = key THEN 1 ELSE 0) + Occurrences(Tail(s), key)

\* C24: untrack_*(k) removes every occurrence of k from the list of its
\* kind, every other key keeps its multiplicity and its place among the
\* others, the lists of the other kinds are unchanged, and a key that is not
\* tracked changes nothing
UntrackRemovesByValue ==
    [][\A kind \in ResourceKinds : \A key \in LedgerKeys(kind) :
          LedgerUntrack(kind, key) =>
             /\ Occurrences(ListOf(ledger', kind), key) = 0
             /\ \A other \in LedgerKeys(kind) \ {key} :
                   Occurrences(ListOf(ledger', kind), other)
                      = Occurrences(ListOf(ledger, kind), other)
             /\ ListOf(ledger', kind) = Without(ListOf(ledger, kind), key)
             /\ \A k2 \in ResourceKinds \ {kind} :
                   ListOf(ledger', k2) = ListOf(ledger, k2)
             /\ Occurrences(ListOf(ledger, kind), key) = 0 => ledger' = ledger]_vars

\* an image key tracked twice around another image key, with a font tracked
\* too, has been untracked
UntrackWitness ==
    /\ ledger_call.op = "untrack"
    /\ ledger_call.key = "i1"
    /\ ledger_call.before.image_keys = <<"i1", "i2", "i1">>
    /\ ledger_call.before.font_keys # <<>>
    /\ ledger.image_keys = <<"i2">>

(***************************************************************************)
(* SpecLoop: the message loop at work with one pipeline: scroll input,     *)
(* requests for a composite, the pacer's clock and ticks                   *)
(***************************************************************************)
LoopReasons == {"Animation", "Resize"}

LoopNext ==
    \/ \E h \in Handles : AttachPipeline("P1", NoParent, h)
    \/ \E delta \in Deltas : ScrollInput(delta, CursorA)
    \/ \E reason \in LoopReasons : RequestComposite(reason)
    \/ \E target \in PipelineIds, reason \in LoopReasons : LoopTick(target, reason)
    \/ \E e \in WaitPoints : WaitUntil(e)

SpecLoop == InitDefault /\ [][LoopNext]_vars

(***************************************************************************)
(* SpecShutdown: the same with the paint messages of the pipeline, and     *)
(* with the shutdown begun and finished at any time                        *)
(***************************************************************************)
ShutdownNext ==
    \/ \E h \in Handles : AttachPipeline("P1", NoParent, h)
    \/ RetirePipeline("P1")
    \/ NoteDisplayListReceived("P1", 1, TRUE)
    \/ \E m \in EpochMapsOver({"P1"}, {1}) : NoteFramePresented(m)
    \/ ScrollInput(<<3, 1>>, CursorA)
    \/ \E reason \in LoopReasons : RequestComposite(reason)
    \/ \E reason \in LoopReasons : LoopTick("P1", reason)
    \/ WaitUntil(target_frame_duration)
    \/ BeginShutdown
    \/ FinishShutdown

SpecShutdown == InitDefault /\ [][ShutdownNext]_vars

(***************************************************************************)
(* Properties of the message loop                                          *)
(***************************************************************************)
\* C25: the composition request is one request, and when a composite has
\* been asked for more than once since the last composite it is
\* CompositeNow of the reason asked for last
LatestReasonRetained ==
    IF requested = <<>>
    THEN shutdown_state = NotShuttingDown
            => composition_request = NoCompositingNecessary
    ELSE composition_request = CompositeNow(requested[Len(requested)])

\* a composite has been asked for twice, for different reasons, and none
\* has been made since
LatestReasonWitness ==
    /\ Len(requested) = 2
    /\ requested[1] # requested[2]
    /\ composition_request = CompositeNow(requested[2])
    /\ shutdown_state = NotShuttingDown

\* C26: the shutdown state never moves backward, whatever is called, and
\* FinishedShuttingDown is never left
ShutdownOnlyForward ==
    [][/\ ShutdownRank(shutdown_state') >= ShutdownRank(shutdown_state)
       /\ shutdown_state = FinishedShuttingDown
            => shutdown_state' = FinishedShuttingDown]_vars

\* the shutdown has finished by way of ShuttingDown (a composite had been
\* made before), and calls have arrived since
ShutdownWitness ==
    /\ shutdown_state = FinishedShuttingDown
    /\ frame_commands # <<>>
    /\ requested = <<>>
    /\ dropped_messages = MaxDropped

\* C27: once the shutdown has finished, no call changes the registry with
\* its paint-metric slots and ledgers, the composition request or the
\* pending scroll input, and nothing is sent to the constellation or to the
\* renderer
NothingAfterShutdown ==
    [][shutdown_state = FinishedShuttingDown =>
         /\ pipeline_details' = pipeline_details
         /\ composition_request' = composition_request
         /\ pending' = pending
         /\ returned' = returned
         /\ metric_events' = metric_events
         /\ renderer_txns' = renderer_txns
         /\ frame_commands' = frame_commands]_vars

\* the shutdown has finished with a pipeline registered whose metric is
\* still to be sent, a composite asked for and scroll input pending, and a
\* call has been dropped
NothingAfterShutdownWitness ==
    /\ shutdown_state = FinishedShuttingDown
    /\ "P1" \in Registered
    /\ pipeline_details["P1"].first_paint_metric.state = "Seen"
    /\ composition_request # NoCompositingNecessary
    /\ pending # <<>>
    /\ dropped_messages > 0

\* a step of tick()
TickStep ==
    \E target \in PipelineIds, reason \in LoopReasons : LoopTick(target, reason)

\* C28: a frame command goes to the renderer only in a tick, only when a
\* composite is wanted (asked for before, or by the scroll input the tick
\* drains) and should_generate_frame holds, and it clears the request; when
\* the pacer defers, no command goes out and a request stays CompositeNow
FrameOnlyWhenPacerApproves ==
    [][/\ frame_commands' # frame_commands =>
            /\ TickStep
            /\ should_generate_frame
            /\ composition_request # NoCompositingNecessary \/ pending # <<>>
            /\ composition_request' = NoCompositingNecessary
            /\ Len(frame_commands') = Len(frame_commands) + 1
       /\ TickStep /\ ~should_generate_frame =>
            /\ frame_commands' = frame_commands
            /\ composition_request # NoCompositingNecessary
                 => composition_request'.request = "CompositeNow"]_vars

\* a wanted composite has been handed to the renderer, the frame being due
FrameWitness ==
    /\ frame_commands # <<>>
    /\ composition_request = NoCompositingNecessary
    /\ instant - last_frame_time >= target_frame_duration
    /\ shutdown_state = NotShuttingDown

(***************************************************************************)
(* SpecEpochs: display lists of any epoch, in any order, for pipelines     *)
(* that come and go                                                        *)
(***************************************************************************)
DisplayList(p, epoch, first_reflow) ==
    /\ Deliver(note_display_list_received(p, epoch, first_reflow))
    /\ last_display_list' = [pipeline |-> p, epoch |-> epoch]
    /\ UNCHANGED <<scroll_vars, pace_vars, mem_vars, ledger_vars, late_vars>>

EpochsNext ==
    \/ \E p \in PipelineIds, h \in Handles : AttachPipeline(p, NoParent, h)
    \/ \E p \in PipelineIds : RetirePipeline(p)
    \/ \E p \in PipelineIds, e \in Epochs, f \in BOOLEAN : DisplayList(p, e, f)

SpecEpochs == InitDefault /\ [][EpochsNext]_vars

(***************************************************************************)
(* Properties of a reused pipeline id and of the display-list epoch        *)
(***************************************************************************)
\* C29: a pipeline that enters the registry, for the first time or after
\* it has been retired, has both paint-metric slots Waiting
ReattachResetsMetrics ==
    [][\A p \in PipelineIds :
          p \notin Registered /\ p \in DOMAIN pipeline_details' =>
             /\ pipeline_details'[p].first_paint_metric = Waiting
             /\ pipeline_details'[p].first_contentful_paint_metric = Waiting]_vars

\* P1 is registered with both slots Waiting after its first-paint metric
\* has been sent: it has been retired and attached again since
ReattachWitness ==
    /\ "P1" \in Registered
    /\ metric_events["P1"]["first_paint_metric"] = 1
    /\ pipeline_details["P1"].first_paint_metric = Waiting
    /\ pipeline_details["P1"].first_contentful_paint_metric = Waiting

IdCallsBegun ==
    Len(id_log) + Cardinality({t \in Threads : id_calls[t].pc # "idle"})

IdStart(t) ==
    /\ IdCallsBegun < MaxIds
    /\ id_start(t)
    /\ UNCHANGED <<contexts, pipeline_contexts, gl_call>>
    /\ UNCHANGED <<early_vars, media_vars, order_vars, stat_vars, shader_vars>>

IdFetch(t) ==
    /\ id_fetch(t)
    /\ UNCHANGED <<contexts, pipeline_contexts, gl_call>>
    /\ UNCHANGED <<early_vars, media_vars, order_vars, stat_vars, shader_vars>>

IdReturn(t) ==
    /\ id_return(t)
    /\ UNCHANGED <<contexts, pipeline_contexts, gl_call>>
    /\ UNCHANGED <<early_vars, media_vars, order_vars, stat_vars, shader_vars>>

IdsNext ==
    \/ \E t \in Threads : IdStart(t)
    \/ \E t \in Threads : IdFetch(t)
    \/ \E t \in Threads : IdReturn(t)

SpecIds == Init /\ [][IdsNext]_vars

\* C31: WebGLContextId::new never returns the same id twice, and an id whose
\* creation began after the creation of another id had completed is
\* strictly larger than that id, whatever the interleaving of the threads
\* that call new.
IdsUniqueAndOrdered ==
    /\ \A i, j \in 1..Len(id_log) : i # j => id_log[i].id # id_log[j].id
    /\ \A i \in 1..Len(id_log) : \A b \in id_log[i].before : b < id_log[i].id

\* two calls overlapped (the one that fetched the larger value returned
\* first) and a third began after both had returned
IdsWitness ==
    /\ Len(id_log) = 3
    /\ id_log[1].id > id_log[2].id
    /\ id_log[3].before = {id_log[1].id, id_log[2].id}

(***************************************************************************)
(* SpecWebGL: any sequence of calls on one WebGLContextManager             *)
(***************************************************************************)
RegisterContext(pipeline_id) ==
    /\ NEXT_ID <= MaxContexts
    /\ register_context(pipeline_id)
    /\ UNCHANGED <<early_vars, media_vars, order_vars, stat_vars, shader_vars>>

RemoveContext(id) ==
    /\ remove_context(id)
    /\ UNCHANGED <<early_vars, media_vars, order_vars, stat_vars, shader_vars>>

RemovePipelineContexts(pipeline_id) ==
    /\ remove_pipeline_contexts(pipeline_id)
    /\ UNCHANGED <<early_vars, media_vars, order_vars, stat_vars, shader_vars>>

WebGLNext ==
    \/ \E p \in PipelineIds : RegisterContext(p)
    \/ \E id \in 1..MaxContexts : RemoveContext(id)
    \/ \E p \in PipelineIds : RemovePipelineContexts(p)

SpecWebGL == Init /\ [][WebGLNext]_vars

\* the states the map m holds for the ids of the list, in the list's order
StatesOf(m, ids) == [i \in 1..Len(ids) |-> m[ids[i]]]

\* the list the map of lists m holds for pipeline p, empty when it has none
ListIn(m, p) == IF p \in DOMAIN m THEN m[p] ELSE <<>>

\* what every call of remove_pipeline_contexts(p) does: it returns the
\* states of the contexts on p's list, none of them can be got afterwards,
\* p has no list, and the contexts and lists of the other pipelines are as
\* they were
RemovePipelineEffect ==
    LET b == gl_call.before
        p == gl_call.pipeline
        ids == ListIn(b.pipeline_contexts, p)
    IN /\ gl_call.returned = StatesOf(b.contexts, ids)
       /\ \A i \in 1..Len(ids) : get_context(ids[i]) = <<>>
       /\ get_pipeline_contexts(p) = <<>>
       /\ DOMAIN contexts = DOMAIN b.contexts \ Range(ids)
       /\ \A id \in DOMAIN contexts : contexts[id] = b.contexts[id]
       /\ DOMAIN pipeline_contexts = DOMAIN b.pipeline_contexts \ {p}
       /\ \A q \in DOMAIN pipeline_contexts :
              pipeline_contexts[q] = b.pipeline_contexts[q]

PlacesOf(id) ==
    {pi \in {<<p, i>> : p \in DOMAIN pipeline_contexts, i \in 1..MaxContexts + 1} :
        /\ pi[2] <= Len(pipeline_contexts[pi[1]])
        /\ pipeline_contexts[pi[1]][pi[2]] = id}

RECURSIVE SumLens(_)
SumLens(S) ==
    IF S = {} THEN 0
    ELSE LET p == CHOOSE x \in S : TRUE
         IN Len(get_pipeline_contexts(p)[1]) + SumLens(S \ {p})

\* C33: the ids of the context map are exactly the ids on the per-pipeline
\* lists, each on exactly one list and exactly once, so that context_count()
\* is the sum of the lengths of the lists get_pipeline_contexts returns.
ContextsMatchLists ==
    /\ DOMAIN contexts =
           UNION {Range(pipeline_contexts[p]) : p \in DOMAIN pipeline_contexts}
    /\ \A id \in DOMAIN contexts :
           /\ Cardinality(PlacesOf(id)) = 1
           /\ contexts[id].id = id
    /\ context_count =
           SumLens({p \in PipelineIds : get_pipeline_contexts(p) # <<>>})

\* a context has just been removed on its own, and both pipelines still
\* have contexts
ContextsMatchWitness ==
    /\ gl_call.op = "remove_context"
    /\ gl_call.returned # <<>>
    /\ context_count = 2
    /\ \A p \in PipelineIds : Len(ListIn(pipeline_contexts, p)) = 1

\* C39: get_pipeline_contexts(p) is None exactly when pipeline p has no
\* live context, whether its contexts were removed one by one with
\* remove_context or together with remove_pipeline_contexts: the pipeline
\* mapping holds no empty list.
NoEntryWithoutContexts ==
    \A p \in PipelineIds :
        get_pipeline_contexts(p) = <<>> <=>
            ~ \E id \in DOMAIN contexts :
                  \E i \in 1..Len(ListIn(pipeline_contexts, p)) :
                      pipeline_contexts[p][i] = id

(***************************************************************************)
(* SpecMedia: threads that initialise the media backend at the same time,  *)
(* with or without GStreamer at hand                                       *)
(***************************************************************************)
MediaCall(t, req) ==
    /\ MediaCallsBegun < MaxMediaCalls
    /\ media_call(t, req)
    /\ UNCHANGED <<early_vars, gl_vars, order_vars, stat_vars, shader_vars>>

MediaCallOnce(t) ==
    /\ media_call_once(t)
    /\ UNCHANGED <<early_vars, gl_vars, order_vars, stat_vars, shader_vars>>

MediaClosure(t, available) ==
    /\ media_closure(t, available)
    /\ UNCHANGED <<early_vars, gl_vars, order_vars, stat_vars, shader_vars>>

MediaRead(t) ==
    /\ media_read(t)
    /\ UNCHANGED <<early_vars, gl_vars, order_vars, stat_vars, shader_vars>>

MediaNext ==
    \/ \E t \in Threads, req \in MediaBackends : MediaCall(t, req)
    \/ \E t \in Threads : MediaCallOnce(t)
    \/ \E t \in Threads, available \in BOOLEAN : MediaClosure(t, available)
    \/ \E t \in Threads : MediaRead(t)

SpecMedia == Init /\ [][MediaNext]_vars

\* C34: init_media_backend is idempotent: whatever the calls, the backends
\* they ask for and the threads they come from, the backend is initialised
\* at most once and every call returns the same result, the one the first
\* call produced.
InitMediaBackendIdempotent ==
    /\ Len(backend_inits) <= 1
    /\ \A i \in 1..Len(media_log) :
           /\ media_log[i].returned # <<>>
           /\ media_log[i].returned = INIT_RESULT
           /\ media_log[i].returned = media_log[1].returned

(***************************************************************************)
(* SpecStats: any sequence of calls on one pacer, with the calls of        *)
(* on_frame_presented counted from the construction or the last reset.     *)
(* begin_frame is left out: it writes last_render_start, which is read     *)
(* for avg_render_time only.                                               *)
(***************************************************************************)
\* frames presented per run of the statistics specification
MaxStatFrames == 2

not_pacer_vars == <<scroll_vars, comp_vars, mem_vars, loop_vars, ledger_vars,
                    epoch_vars, gl_vars, media_vars, order_vars, shader_vars>>

StatsSetRate(hz) ==
    set_refresh_rate(hz) /\ UNCHANGED <<presented_calls, not_pacer_vars>>

StatsPresent ==
    /\ Len(frame_log) < MaxStatFrames
    /\ on_frame_presented
    /\ presented_calls' = presented_calls + 1
    /\ UNCHANGED not_pacer_vars

StatsReset ==
    /\ reset_stats
    /\ presented_calls' = 0
    /\ UNCHANGED not_pacer_vars

StatsConfigMut(c) ==
    /\ c # pacing_config
    /\ pacing_config_mut(c)
    /\ UNCHANGED <<presented_calls, not_pacer_vars>>

StatsWait(e) ==
    wait_until_elapsed(e) /\ UNCHANGED <<presented_calls, not_pacer_vars>>

StatsNext ==
    \/ \E hz \in {Hz(360), Hz(361)} : StatsSetRate(hz)
    \/ StatsPresent
    \/ StatsReset
    \/ \E c \in {DefaultPacingConfig,
                 [DefaultPacingConfig EXCEPT !.drop_threshold = [num |-> 1, den |-> 2]]} :
          StatsConfigMut(c)
    \/ \E e \in WaitPoints : StatsWait(e)

SpecStats == InitDefault /\ [][StatsNext]_vars

\* C35: stats().total_frames is the number of on_frame_presented calls since
\* the construction or the last reset_stats, dropped_frames never exceeds
\* total_frames, and drop_percentage() lies between 0 and 100.
FrameStatsCount ==
    /\ pacing_stats.total_frames = presented_calls
    /\ pacing_stats.dropped_frames <= pacing_stats.total_frames
    /\ 0 <= drop_percentage.num
    /\ drop_percentage.num <= 100 * drop_percentage.den

\* a frame was presented and the statistics were reset; the one frame
\* presented since then was late and counts as dropped
FrameStatsWitness ==
    /\ Len(frame_log) = 2
    /\ presented_calls = 1
    /\ pacing_stats.total_frames = 1
    /\ pacing_stats.dropped_frames = 1
    /\ drop_percentage.num = 100 * drop_percentage.den

(***************************************************************************)
(* SpecOrder: the coalescer of SpecScroll with the raw events numbered in  *)
(* the order of their arrival and every batch followed by the list of the  *)
(* events that went into it                                                *)
(***************************************************************************)
not_scroll_vars == <<comp_vars, pace_vars, mem_vars, loop_vars, ledger_vars,
                     epoch_vars, gl_vars, media_vars, stat_vars, shader_vars>>

\* the positions of the pending batches that flush returns
ReadyPositions == {i \in 1..Len(pending) : should_flush(pending[i], now)}

\* the history of a batch made of the n-th raw event alone
LogOfNew(n, cursor) == [arrivals |-> <<n>>, cursors |-> <<cursor>>]

\* add_event either pushes a batch at the end or changes one pending batch
OrderAdd(delta, cursor) ==
    /\ Len(added) < MaxAdds
    /\ add_event(delta, cursor)
    /\ batch_log' =
           IF Len(pending') > Len(pending)
           THEN Append(batch_log, LogOfNew(Len(added) + 1, cursor))
           ELSE LET i == CHOOSE k \in 1..Len(pending) : pending'[k] # pending[k]
                IN [batch_log EXCEPT ![i].arrivals = Append(@, Len(added) + 1),
                                     ![i].cursors = Append(@, cursor)]
    /\ UNCHANGED <<returned_log, not_scroll_vars>>

OrderFlush ==
    /\ flush
    /\ returned_log' = returned_log \o Pick(batch_log, ReadyPositions)
    /\ batch_log' = Pick(batch_log, (1..Len(pending)) \ ReadyPositions)
    /\ UNCHANGED not_scroll_vars

OrderFlushAll ==
    /\ flush_all
    /\ returned_log' = returned_log \o batch_log
    /\ batch_log' = <<>>
    /\ UNCHANGED not_scroll_vars

OrderTick(dt) == Advance(dt) /\ UNCHANGED <<order_vars, not_scroll_vars>>

OrderNext ==
    \/ \E d \in Deltas, c \in Cursors : OrderAdd(d, c)
    \/ OrderFlush
    \/ OrderFlushAll
    \/ \E dt \in TimeSteps : OrderTick(dt)

SpecOrder == Init /\ [][OrderNext]_vars

\* every event of the batch at position i of s arrived before every event
\* of the batches at the later positions
ArrivalsAscend(s) ==
    \A i, j \in 1..Len(s) :
        i < j => \A a \in Range(s[i].arrivals), b \in Range(s[j].arrivals) : a < b

\* C36: coalescing preserves the arrival order of scroll input: of two raw
\* events, the batch of the one added first is returned at or before the
\* batch of the other, and no event is merged into a batch that precedes a
\* pending batch created before the event arrived.
ArrivalOrderPreserved ==
    /\ ArrivalsAscend(returned_log)
    /\ ArrivalsAscend(batch_log)

\* the histories are those of the batches: one per batch, one arrival per
\* event of the batch, the last cursor being the batch's cursor
BatchLogsInStep ==
    /\ Len(batch_log) = Len(pending)
    /\ Len(returned_log) = Len(returned)
    /\ \A i \in 1..Len(pending) :
           /\ Len(batch_log[i].arrivals) = pending[i].event_count
           /\ batch_log[i].cursors[pending[i].event_count] = pending[i].cursor

\* the histories of all batches, returned or pending
AllBatchLogs == Range(returned_log) \cup Range(batch_log)

\* C37 as stated: every raw event merged into a batch has its cursor within
\* the proximity threshold (10 px) of the cursor of the batch's first event.
MergedNearFirstCursor ==
    \A b \in AllBatchLogs :
        \A k \in 2..Len(b.cursors) :
            cursor_distance(b.cursors[1], b.cursors[k]) <= 100

\* C37, amended: every raw event merged into a batch has its cursor within
\* the proximity threshold (10 px) of the cursor of the event that went
\* into the batch just before it, which is the batch's cursor at the time
\* of the merge.
MergedNearLastCursor ==
    \A b \in AllBatchLogs :
        \A k \in 2..Len(b.cursors) :
            cursor_distance(b.cursors[k - 1], b.cursors[k]) <= 100

\* a returned batch of three events whose cursors went from A to B and on
\* to C, which is farther than the threshold from A
MergedNearLastWitness ==
    \E i \in 1..Len(returned_log) :
        /\ returned_log[i].cursors = <<CursorA, CursorB, CursorC>>
        /\ returned[i].event_count = 3
        /\ returned[i].cursor = CursorC

(***************************************************************************)
(* The first interval of the memory pressure monitor                       *)
(***************************************************************************)
\* C38: a new monitor reports Normal, and every check() made before
\* check_interval has elapsed since the construction (at time 0) returns
\* Normal and takes no sample, whatever the utilization; a sample exists
\* only once check_interval has elapsed.
NormalUntilFirstInterval ==
    /\ mem_now < mem_config.check_interval =>
           /\ current_level = Normal
           /\ samples = <<>>
           /\ ~check_sampled
           /\ check_returned \in {NoValue, Normal}
    /\ samples # <<>> => mem_now >= mem_config.check_interval

\* check() has been called within the first interval, and the clock stands
\* just before the interval's end
FirstIntervalWitness ==
    /\ mem_now = mem_config.check_interval - 1
    /\ check_returned = Normal
    /\ ~check_sampled
    /\ samples = <<>>

(***************************************************************************)
(* SpecShader: trackers of shader compilation for any total, and shaders   *)
(* that compile or fail                                                    *)
(***************************************************************************)
not_shader_vars == <<early_vars, gl_vars, media_vars, order_vars, stat_vars>>

\* a tracker is constructed in the place of the last one
NewProgress(total) ==
    /\ progress' = ShaderCompilationProgress_new(total)
    /\ UNCHANGED not_shader_vars

OnShaderCompiled ==
    /\ progress.compiled < MaxShaderCalls
    /\ on_shader_compiled
    /\ UNCHANGED not_shader_vars

OnShaderFailed ==
    /\ progress.failed < MaxShaderCalls
    /\ on_shader_failed
    /\ UNCHANGED not_shader_vars

ShaderNext ==
    \/ \E total \in 0..MaxTotal : NewProgress(total)
    \/ OnShaderCompiled
    \/ OnShaderFailed

SpecShader == Init /\ [][ShaderNext]_vars

\* C40: for every total, 0 included, and after any calls of
\* on_shader_compiled and on_shader_failed, complete is true exactly when
\* compiled + failed >= total.
CompleteIffAllDone ==
    progress.complete <=> progress.compiled + progress.failed >= progress.total

====
